---- MODULE Spec2Model ----
(***************************************************************************)
(* Cart store of the Beaucharme shop: the shared cart state kept in        *)
(* window.__beaucharmeCartState, its persistence in localStorage under     *)
(* 'beaucharme-cart', the load-time validation of utils/validation.ts and  *)
(* the two families of mutators: the synchronous ones of CartContext.tsx   *)
(* and the suspending ones of stores/cartStore.ts + actions/cart.ts.       *)
(*                                                                         *)
(* Numbers are kept in hundredths (12.5 is 1250, a quantity of 2 is 200),  *)
(* so that a price in minor units and a fractional quantity such as 1.5    *)
(* are both integers of the model.  Strings are sequences of characters.   *)
(***************************************************************************)
EXTENDS Integers, Sequences, FiniteSets, TLC

(***************************************************************************)
(* Bounds of the exploration.                                              *)
(***************************************************************************)
\* number of operations explored after construction (CartContext)
MaxOps == 3
\* number of operations explored after construction (stores/cartStore.ts)
MaxCalls == 2
\* length of the JSON arrays found in storage at start
MaxStored == 2
\* number of UI fragments (islands) that use the cart
MaxFragments == 2
\* number of mutator calls explored on the stores taken as objects
MaxMutations == 3
\* number of products in a catalog handed to the filter pipeline
MaxCatalog == 3

(***************************************************************************)
(* Constants of utils/validation.ts.                                       *)
(***************************************************************************)
MAX_SEARCH_LENGTH == 100
MAX_NAME_LENGTH == 200
MAX_QUANTITY == 99

LowerCase == {"a", "b", "c", "d", "e", "f", "g", "h", "i", "j", "k", "l", "m",
              "n", "o", "p", "q", "r", "s", "t", "u", "v", "w", "x", "y", "z"}
Digits == {"0", "1", "2", "3", "4", "5", "6", "7", "8", "9"}
\* the characters VALID_ID_PATTERN = /^[a-z0-9-]+$/ admits
VALID_ID_PATTERN == LowerCase \cup Digits \cup {"-"}

(***************************************************************************)
(* JavaScript values.  A scalar is undefined, null, a finite number, a     *)
(* non-finite number ("inf": Infinity or NaN), or a string.                *)
(***************************************************************************)
Undef == [t |-> "undef", n |-> 0, s |-> <<>>]
Null == [t |-> "null", n |-> 0, s |-> <<>>]
Inf == [t |-> "inf", n |-> 0, s |-> <<>>]
\* a finite number given in hundredths
Hundredths(h) == [t |-> "num", n |-> h, s |-> <<>>]
\* a whole number
Num(x) == Hundredths(x * 100)
StrV(chars) == [t |-> "str", n |-> 0, s |-> chars]

\* an object with the five CartItem fields (a missing field is undefined)
Obj(id, name, price, image, quantity) ==
    [t |-> "obj", id |-> id, name |-> name, price |-> price,
     image |-> image, quantity |-> quantity]
\* an array element that is not a plain object: null, a string, a number
NonObj(type) ==
    [t |-> type, id |-> Undef, name |-> Undef, price |-> Undef,
     image |-> Undef, quantity |-> Undef]

(***************************************************************************)
(* localStorage.getItem(STORAGE_KEY): no key, the empty string, text that  *)
(* is not JSON, JSON whose top level is not an array, or a JSON array.     *)
(***************************************************************************)
NoKey == [kind |-> "absent", arr |-> <<>>]
EmptyText == [kind |-> "empty", arr |-> <<>>]
Malformed == [kind |-> "malformed", arr |-> <<>>]
NonArray == [kind |-> "nonarray", arr |-> <<>>]
ArrayText(elems) == [kind |-> "array", arr |-> elems]

\* JSON.stringify of one field: undefined is omitted, a non-finite number
\* is written as null
StringifyField(v) == IF v.t = "inf" THEN Null ELSE v

\* JSON.stringify(items)
JSONstringify(items) ==
    ArrayText([i \in DOMAIN items |->
        [t |-> items[i].t,
         id |-> StringifyField(items[i].id),
         name |-> StringifyField(items[i].name),
         price |-> StringifyField(items[i].price),
         image |-> StringifyField(items[i].image),
         quantity |-> StringifyField(items[i].quantity)]])

\* JSON.parse(text): throws on text that is not JSON
JSONparse(text) ==
    CASE text.kind = "array" -> [throws |-> FALSE, isArray |-> TRUE, arr |-> text.arr]
      [] text.kind = "nonarray" -> [throws |-> FALSE, isArray |-> FALSE, arr |-> <<>>]
      [] OTHER -> [throws |-> TRUE, isArray |-> FALSE, arr |-> <<>>]

(***************************************************************************)
(* utils/validation.ts                                                     *)
(***************************************************************************)
isValidId(id) ==
    /\ id.t = "str"
    /\ Len(id.s) > 0
    /\ \A i \in DOMAIN id.s : id.s[i] \in VALID_ID_PATTERN

\* isValidCartItem with the quantity limit taken exclusive
isValidCartItem_exclusiveMax(item) ==
    /\ item.t = "obj"
    /\ isValidId(item.id)
    /\ item.name.t = "str"
    /\ Len(item.name.s) > 0
    /\ Len(item.name.s) <= MAX_NAME_LENGTH
    /\ item.price.t = "num"
    /\ item.price.n >= 0
    /\ item.image.t = "str"
    /\ item.quantity.t = "num" /\ item.quantity.n % 100 = 0
    /\ item.quantity.n > 0
    /\ item.quantity.n < MAX_QUANTITY * 100

isValidCartItem(item) ==
    /\ item.t = "obj"
    /\ isValidId(item.id)
    /\ item.name.t = "str"
    /\ Len(item.name.s) > 0
    /\ Len(item.name.s) <= MAX_NAME_LENGTH
    /\ item.price.t \in {"num", "inf"}
    /\ item.price.t = "num"
    /\ item.price.n >= 0
    /\ item.image.t = "str"
    /\ item.quantity.t \in {"num", "inf"}
    /\ item.quantity.t = "num" /\ item.quantity.n % 100 = 0
    /\ item.quantity.n > 0
    /\ item.quantity.n <= MAX_QUANTITY * 100

\* parseAndValidateCart giving up on the whole array when one element is
\* invalid
parseAndValidateCart_allOrNothing(jsonString) ==
    IF jsonString.kind \in {"absent", "empty"} THEN <<>>
    ELSE LET parsed == JSONparse(jsonString) IN
         IF parsed.throws THEN <<>>
         ELSE IF ~parsed.isArray THEN <<>>
         ELSE IF \A i \in DOMAIN parsed.arr : isValidCartItem(parsed.arr[i])
         THEN parsed.arr
         ELSE <<>>

parseAndValidateCart(jsonString) ==
    IF jsonString.kind \in {"absent", "empty"} THEN <<>>
    ELSE LET parsed == JSONparse(jsonString) IN
         IF parsed.throws THEN <<>>
         ELSE IF ~parsed.isArray THEN <<>>
         ELSE SelectSeq(parsed.arr, isValidCartItem)

(***************************************************************************)
(* actions/cart.ts: the computations of the four cart actions (what each   *)
(* returns in data.cart once its simulated delay is over).  The mutators   *)
(* of CartContext.tsx compute the same lists inline.                       *)
(***************************************************************************)
\* currentCart.find((item) => item.id === product.id) found something
HasItem(cart, productId) == \E i \in DOMAIN cart : cart[i].id = StrV(productId)

\* item.quantity + 1
Increment(quantity) ==
    IF quantity.t = "num" THEN Hundredths(quantity.n + 100) ELSE quantity

addToCart(product, currentCart) ==
    IF HasItem(currentCart, product.id)
    THEN [i \in DOMAIN currentCart |->
            IF currentCart[i].id = StrV(product.id)
            THEN [currentCart[i] EXCEPT !.quantity = Increment(@)]
            ELSE currentCart[i]]
    ELSE Append(currentCart,
                Obj(StrV(product.id), StrV(product.name), Hundredths(product.price),
                    StrV(product.image), Num(1)))

KeepOthers(cart, productId) ==
    SelectSeq(cart, LAMBDA item : item.id # StrV(productId))

removeFromCart(productId, currentCart) == KeepOthers(currentCart, productId)

\* quantity is a whole number of units
cartActions_updateQuantity(productId, quantity, currentCart) ==
    IF quantity <= 0
    THEN KeepOthers(currentCart, productId)
    ELSE [i \in DOMAIN currentCart |->
            IF currentCart[i].id = StrV(productId)
            THEN [currentCart[i] EXCEPT !.quantity = Num(quantity)]
            ELSE currentCart[i]]

cartActions_clearCart == <<>>

(***************************************************************************)
(* The catalog products the add-to-cart buttons pass to addItem, and the   *)
(* quantities the callers pass to updateQuantity.                          *)
(***************************************************************************)
Products ==
    { [id |-> <<"a">>, name |-> <<"A">>, price |-> 1250, image |-> <<"/">>],
      [id |-> <<"b">>, name |-> <<"B">>, price |-> 3900, image |-> <<>>] }
ProductIds == { p.id : p \in Products }
Quantities == {-1, 0, 2, MAX_QUANTITY, MAX_QUANTITY + 1}

\* line items as the store itself writes them
Item(p, quantity) ==
    Obj(StrV(p.id), StrV(p.name), Hundredths(p.price), StrV(p.image), Num(quantity))
ProductOf(id) == CHOOSE p \in Products : p.id = id

(***************************************************************************)
(* What may be found under STORAGE_KEY when the page starts.               *)
(***************************************************************************)
StoredElements ==
    { Item(ProductOf(<<"a">>), 1), Item(ProductOf(<<"a">>), MAX_QUANTITY),
      Item(ProductOf(<<"b">>), MAX_QUANTITY + 1) }
SeqsUpTo(S, n) == UNION { [1..k -> S] : k \in 0..n }
TextsOver(elements) ==
    {NoKey, EmptyText, Malformed, NonArray}
        \cup { ArrayText(a) : a \in SeqsUpTo(elements, MaxStored) }
StoredTexts == TextsOver(StoredElements)

\* the same for the pages that use stores/cartStore.ts, whose callers pass
\* quantity + 1 and quantity - 1 to updateQuantity
StoreElements ==
    { Item(ProductOf(<<"a">>), 1), Item(ProductOf(<<"b">>), MAX_QUANTITY + 1) }
StoreTexts == TextsOver(StoreElements)
StoreQuantities == {0, 2}

(***************************************************************************)
(* Objects and arrays by reference.  The heap is the sequence of the cells *)
(* created so far; the address of a cell is its index, and every object or *)
(* array literal, spread, map and filter of the source creates a cell.  An *)
(* array cell holds primitive values or the addresses of objects.          *)
(***************************************************************************)
DEFAULT_PRICE_MIN == 0
DEFAULT_PRICE_MAX == 100

alloc(h, cell) == Append(h, cell)
ArrayCell(elems) == [k |-> "Array", v |-> elems]
CartItemCell(item) == [k |-> "CartItem", v |-> item]
CartStateCell(fields) == [k |-> "CartState", v |-> fields]
FilterStateCell(fields) == [k |-> "FilterState", v |-> fields]
Undefined == 0

\* the cells made when the modules are loaded:
\*   1-4  emptyState of stores/filterStore.ts and its three arrays
\*   5    its state = { ...emptyState }
\*   6-7  emptyState of contexts/CartContext.tsx and its items array
\*   8-9  emptyState of the cartStore and its items array
\*   10   its state = { ...emptyState }
filterStore_emptyState == 4
CartContext_emptyState == 7
cartStore_emptyState == 9
ModulesLoaded ==
    << ArrayCell(<<>>),
       ArrayCell(<<>>),
       ArrayCell(<<Num(DEFAULT_PRICE_MIN), Num(DEFAULT_PRICE_MAX)>>),
       FilterStateCell([categories |-> 1, plants |-> 2, priceRange |-> 3,
                        inStockOnly |-> FALSE, sortBy |-> "default",
                        searchQuery |-> <<>>]),
       FilterStateCell([categories |-> 1, plants |-> 2, priceRange |-> 3,
                        inStockOnly |-> FALSE, sortBy |-> "default",
                        searchQuery |-> <<>>]),
       ArrayCell(<<>>),
       CartStateCell([items |-> 6, isOpen |-> FALSE, isLoading |-> FALSE,
                      error |-> "null"]),
       ArrayCell(<<>>),
       CartStateCell([items |-> 8, isOpen |-> FALSE]),
       CartStateCell([items |-> 8, isOpen |-> FALSE]) >>

\* the cells a reader of the snapshot at address a can reach: the state
\* object, its arrays, and the line items in its items array
Reach(h, a) ==
    IF h[a].k = "FilterState"
    THEN {a, h[a].v.categories, h[a].v.plants, h[a].v.priceRange}
    ELSE {a, h[a].v.items}
           \cup { h[h[a].v.items].v[i] : i \in DOMAIN h[h[a].v.items].v }

\* what a reader of the snapshot at address a holds, cell by cell
Snapshot(h, a) == [snapshot |-> a, cells |-> [x \in Reach(h, a) |-> h[x]]]

(***************************************************************************)
(* State.                                                                  *)
(*   storage      the text under STORAGE_KEY in localStorage               *)
(*   cartState    window.__beaucharmeCartState (emptyState while unset)    *)
(*   initialized  window.__beaucharmeCartInitialized                       *)
(*   pending      the suspended mutator calls of stores/cartStore.ts, each *)
(*                with the snapshot `current` it read before suspending    *)
(* History, read by the properties only:                                   *)
(*   last         the operation that ran last, with its arguments          *)
(*   before       the line items it found                                  *)
(*   saved        outcome of the latest mutator's storage write            *)
(*   persisted    the list most recently written to storage by the store   *)
(*   addRun       per product: number of addItem calls since the product   *)
(*                was absent with nothing else touching it (-1: not such   *)
(*                a run)                                                   *)
(*   log, base    the suspending mutator calls made since the cart was     *)
(*                initialized, and the line items it was initialized with  *)
(*   nOps, nCalls operations made so far on the context, on the store      *)
(*   fnIn, fnOut, fnDone   argument and result of a function under test    *)
(* The page around the cart:                                               *)
(*   fragments    per UI fragment: whether its mount effect has run and    *)
(*                its cleanup has not (it listens to CART_EVENT), and the  *)
(*                local copy of the shared state it last passed to its     *)
(*                setState                                                 *)
(*   overflow     document.body.style.overflow                             *)
(*   menuOpen     isOpen of the MobileMenu                                 *)
(* Objects by reference:                                                   *)
(*   heap               the cells created so far                           *)
(*   filterStore_state  address held by `state` of stores/filterStore.ts   *)
(*   cartStore_state    address held by `state` of the cartStore           *)
(*   cartStore_isInitialized   isInitialized of the cartStore              *)
(*   overflowHidden     document.body.classList has 'overflow-hidden'      *)
(*   globalState        address held by window.__beaucharmeCartState       *)
(*                      (Undefined before initializeCart)                  *)
(*   snapshots          history: every snapshot installed so far, with the *)
(*                      cells a reader could reach from it at that moment  *)
(*   nMutations         mutator calls made so far on these stores          *)
(***************************************************************************)
VARIABLES storage, cartState, initialized, pending, last, before, saved,
          persisted, addRun, log, base, nOps, nCalls, fnIn, fnOut, fnDone,
          fragments, overflow, menuOpen,
          heap, filterStore_state, cartStore_state, cartStore_isInitialized,
          overflowHidden, globalState, snapshots, nMutations

vars == <<storage, cartState, initialized, pending, last, before, saved,
          persisted, addRun, log, base, nOps, nCalls, fnIn, fnOut, fnDone,
          fragments, overflow, menuOpen,
          heap, filterStore_state, cartStore_state, cartStore_isInitialized,
          overflowHidden, globalState, snapshots, nMutations>>
fnVars == <<fnIn, fnOut, fnDone>>
uiVars == <<fragments, overflow, menuOpen>>
heapVars == <<heap, filterStore_state, cartStore_state, cartStore_isInitialized,
              overflowHidden, globalState, snapshots, nMutations>>
asyncHist == <<log, base, nCalls>>

emptyState == [items |-> <<>>, isOpen |-> FALSE, isLoading |-> FALSE, error |-> "null"]

Fragments == 1..MaxFragments
\* a fragment that is not mounted: useState(emptyState) is what it starts
\* from when it mounts
notMounted == [mounted |-> FALSE, state |-> emptyState]
noFragments == [f \in Fragments |-> notMounted]
\* the page as it is loaded: nothing mounted, scroll free, menu closed,
\* and the module-level objects of the stores just created
pageLoaded ==
    /\ fragments = noFragments
    /\ overflow = ""
    /\ menuOpen = FALSE
    /\ heap = ModulesLoaded
    /\ filterStore_state = 5
    /\ cartStore_state = 10
    /\ cartStore_isInitialized = FALSE
    /\ overflowHidden = FALSE
    /\ globalState = Undefined
    /\ snapshots = [i \in 1..5 |->
          Snapshot(ModulesLoaded,
                   <<filterStore_emptyState, 5, CartContext_emptyState,
                     cartStore_emptyState, 10>>[i])]
    /\ nMutations = 0

NoId == <<>>
\* repeat: the operation before it was the same one on the same id
Op(name, id, quantity) ==
    [op |-> name, id |-> id, quantity |-> quantity,
     repeat |-> last.op = name /\ last.id = id]
NotPersisted == [some |-> FALSE, items |-> <<>>]
Persisted(items) == [some |-> TRUE, items |-> items]

InitWith(texts) ==
    /\ storage \in texts
    /\ cartState = emptyState
    /\ initialized = FALSE
    /\ pending = {}
    /\ last = [op |-> "start", id |-> NoId, quantity |-> 0, repeat |-> FALSE]
    /\ before = <<>>
    /\ saved = "none"
    /\ persisted = NotPersisted
    /\ addRun = [id \in ProductIds |-> -1]
    /\ log = <<>>
    /\ base = <<>>
    /\ nOps = 0
    /\ nCalls = 0
    /\ fnIn = NoKey
    /\ fnOut = <<>>
    /\ fnDone = FALSE
    /\ pageLoaded

Init == InitWith(StoredTexts)

(***************************************************************************)
(* contexts/CartContext.tsx                                                *)
(***************************************************************************)
\* loadFromStorage(): getItem, then parseAndValidateCart
loadFromStorage(text) == parseAndValidateCart(text)

\* saveToStorage(items): setItem may throw (quota); the error is caught and
\* logged, and the stored text is then the old one
saveToStorage(items, ok) == IF ok THEN JSONstringify(items) ELSE storage

\* window.dispatchEvent(new CustomEvent(CART_EVENT)): the handleChange of
\* every fragment that listens runs setState({...getGlobalState()})
dispatchEvent_firstListenerOnly(frs, newState) ==
    [f \in Fragments |->
        IF frs[f].mounted /\ \A g \in Fragments : frs[g].mounted => f <= g
        THEN [frs[f] EXCEPT !.state = newState] ELSE frs[f]]

dispatchEvent(frs, newState) ==
    [f \in Fragments |->
        IF frs[f].mounted THEN [frs[f] EXCEPT !.state = newState] ELSE frs[f]]

\* the body-overflow effect, with dependency state.isOpen: a fragment whose
\* isOpen has changed runs the cleanup (overflow = '') and then the effect
\* (overflow = state.isOpen ? 'hidden' : '')
overflowEffect(frs, newFrs, current) ==
    IF \E f \in Fragments :
          /\ frs[f].mounted /\ newFrs[f].mounted
          /\ frs[f].state.isOpen # newFrs[f].state.isOpen
    THEN IF \E f \in Fragments : newFrs[f].mounted /\ newFrs[f].state.isOpen
         THEN "hidden" ELSE ""
    ELSE current

\* setGlobalState(newState), and the rendering it causes
setGlobalState(newState) ==
    /\ cartState' = newState
    /\ fragments' = dispatchEvent(fragments, newState)
    /\ overflow' = overflowEffect(fragments, fragments', overflow)
    /\ UNCHANGED menuOpen

RunAfterLoad(items) ==
    [id \in ProductIds |-> IF HasItem(items, id) THEN -1 ELSE 0]

\* initializeCart(), run by the mount effect of the first fragment, which
\* then copies the state and starts to listen; its overflow effect, run
\* with isOpen false, leaves overflow = ''
initializeCart ==
    /\ ~initialized
    /\ initialized' = TRUE
    /\ LET items == loadFromStorage(storage) IN
         /\ cartState' = [emptyState EXCEPT !.items = items]
         /\ addRun' = RunAfterLoad(items)
    /\ fragments' = [fragments EXCEPT ![1] = [mounted |-> TRUE, state |-> cartState']]
    /\ overflow' = ""
    /\ UNCHANGED menuOpen
    /\ last' = Op("initializeCart", NoId, 0)
    /\ before' = cartState.items
    /\ UNCHANGED <<storage, pending, saved, persisted, nOps>>
    /\ UNCHANGED asyncHist
    /\ UNCHANGED fnVars
    /\ UNCHANGED heapVars

\* a page load: the window globals are gone, localStorage stays
Reload ==
    /\ initialized
    /\ nOps < MaxOps
    /\ nOps' = nOps + 1
    /\ initialized' = FALSE
    /\ cartState' = emptyState
    /\ saved' = "none"
    /\ last' = Op("reload", NoId, 0)
    /\ before' = cartState.items
    /\ fragments' = noFragments
    /\ overflow' = ""
    /\ menuOpen' = FALSE
    /\ UNCHANGED <<storage, pending, persisted, addRun>>
    /\ UNCHANGED asyncHist
    /\ UNCHANGED fnVars
    /\ UNCHANGED heapVars

\* the part every CartContext mutator shares: saveToStorage(newItems), then
\* setGlobalState({...current, items: newItems, isLoading: false}).  The
\* earlier setGlobalState({...current, isLoading: true}) is replaced within
\* the same call; the catch branch needs a throw that nothing in the try
\* block produces (saveToStorage catches its own).
Publish(name, id, quantity, newItems, run) ==
    /\ initialized
    /\ \E f \in Fragments : fragments[f].mounted
    /\ nOps < MaxOps
    /\ nOps' = nOps + 1
    /\ \E ok \in BOOLEAN :
         /\ storage' = saveToStorage(newItems, ok)
         /\ saved' = IF ok THEN "ok" ELSE "failed"
         /\ persisted' = IF ok THEN Persisted(newItems) ELSE persisted
    /\ setGlobalState([cartState EXCEPT !.items = newItems, !.isLoading = FALSE])
    /\ last' = Op(name, id, quantity)
    /\ before' = cartState.items
    /\ addRun' = run
    /\ UNCHANGED <<initialized, pending>>
    /\ UNCHANGED asyncHist
    /\ UNCHANGED fnVars
    /\ UNCHANGED heapVars

addItem_newItems(product, current) ==
    IF \E i \in DOMAIN current.items : current.items[i].id = StrV(product.id)
    THEN [i \in DOMAIN current.items |->
            IF current.items[i].id = StrV(product.id)
            THEN [current.items[i] EXCEPT !.quantity = Increment(@)]
            ELSE current.items[i]]
    ELSE current.items \o
           <<Obj(StrV(product.id), StrV(product.name), Hundredths(product.price),
                 StrV(product.image), Num(1))>>

addItem(product) ==
    Publish("addItem", product.id, 0, addItem_newItems(product, cartState),
            [addRun EXCEPT ![product.id] = IF @ >= 0 THEN @ + 1 ELSE @])

\* removeItem written with splice(findIndex(...), 1): one match goes, and
\* with no match (index -1) the last element goes
removeItem_newItems_splice(productId, current) ==
    LET items == current.items
        hits == { i \in DOMAIN items : items[i].id = StrV(productId) }
        at == IF hits = {} THEN Len(items)
              ELSE CHOOSE i \in hits : \A j \in hits : i <= j
    IN [i \in 1..(Len(items) - (IF items = <<>> THEN 0 ELSE 1)) |->
          IF i < at THEN items[i] ELSE items[i + 1]]

removeItem_newItems(productId, current) ==
    SelectSeq(current.items, LAMBDA item : item.id # StrV(productId))

removeItem(productId) ==
    Publish("removeItem", productId, 0, removeItem_newItems(productId, cartState),
            [addRun EXCEPT ![productId] = 0])

\* updateQuantity removing only on a negative quantity
updateQuantity_newItems_negativeOnly(productId, quantity, current) ==
    IF quantity < 0
    THEN SelectSeq(current.items, LAMBDA item : item.id # StrV(productId))
    ELSE [i \in DOMAIN current.items |->
            IF current.items[i].id = StrV(productId)
            THEN [current.items[i] EXCEPT !.quantity = Num(quantity)]
            ELSE current.items[i]]

\* updateQuantity treating an absent id as an implicit add
updateQuantity_newItems_upsert(productId, quantity, current) ==
    IF quantity <= 0
    THEN SelectSeq(current.items, LAMBDA item : item.id # StrV(productId))
    ELSE IF \E i \in DOMAIN current.items : current.items[i].id = StrV(productId)
    THEN [i \in DOMAIN current.items |->
            IF current.items[i].id = StrV(productId)
            THEN [current.items[i] EXCEPT !.quantity = Num(quantity)]
            ELSE current.items[i]]
    ELSE Append(current.items, Obj(StrV(productId), Undef, Undef, Undef, Num(quantity)))

updateQuantity_newItems(productId, quantity, current) ==
    IF quantity <= 0
    THEN SelectSeq(current.items, LAMBDA item : item.id # StrV(productId))
    ELSE [i \in DOMAIN current.items |->
            IF current.items[i].id = StrV(productId)
            THEN [current.items[i] EXCEPT !.quantity = Num(quantity)]
            ELSE current.items[i]]

updateQuantity(productId, quantity) ==
    Publish("updateQuantity", productId, quantity,
            updateQuantity_newItems(productId, quantity, cartState),
            [addRun EXCEPT ![productId] =
                IF quantity <= 0 \/ ~HasItem(cartState.items, productId)
                THEN 0 ELSE -1])

clearCart ==
    Publish("clearCart", NoId, 0, <<>>, [id \in ProductIds |-> 0])

\* openCart / closeCart: setGlobalState({...getGlobalState(), isOpen})
SetOpen(name, open) ==
    /\ initialized
    /\ \E f \in Fragments : fragments[f].mounted
    /\ nOps < MaxOps
    /\ nOps' = nOps + 1
    /\ setGlobalState([cartState EXCEPT !.isOpen = open])
    /\ last' = Op(name, NoId, 0)
    /\ before' = cartState.items
    /\ UNCHANGED <<storage, initialized, pending, saved, persisted, addRun>>
    /\ UNCHANGED asyncHist
    /\ UNCHANGED fnVars
    /\ UNCHANGED heapVars

openCart == SetOpen("openCart", TRUE)

closeCart == SetOpen("closeCart", FALSE)

Next ==
    \/ initializeCart
    \/ Reload
    \/ \E product \in Products : addItem(product)
    \/ \E productId \in ProductIds : removeItem(productId)
    \/ \E productId \in ProductIds, quantity \in Quantities :
          updateQuantity(productId, quantity)
    \/ clearCart
    \/ openCart
    \/ closeCart

Spec == Init /\ [][Next]_vars

(***************************************************************************)
(* Properties of the CartContext cart.                                     *)
(***************************************************************************)
items == cartState.items

Min(a, b) == IF a <= b THEN a ELSE b

\* the line items of `list` for product `id`, and the others, in order
ItemsFor(list, id) == SelectSeq(list, LAMBDA item : item.id = StrV(id))
OthersThan(list, id) == SelectSeq(list, LAMBDA item : item.id # StrV(id))

\* the CartLineItem shape: id a non-empty token of lowercase letters, digits
\* and hyphens; name a non-empty string of at most 200 characters; price a
\* finite number >= 0; image a string; quantity a whole number in 1..99
CartLineItemShape(e) ==
    /\ e.t = "obj"
    /\ e.id.t = "str" /\ e.id.s # <<>>
    /\ \A i \in 1..Len(e.id.s) : e.id.s[i] \in LowerCase \cup Digits \cup {"-"}
    /\ e.name.t = "str" /\ Len(e.name.s) \in 1..200
    /\ e.price.t = "num" /\ e.price.n >= 0
    /\ e.image.t = "str"
    /\ e.quantity.t = "num"
    /\ \E q \in 1..99 : e.quantity.n = 100 * q

\* C1: after n addItem(p) calls in a row on a cart that had no line item for
\* p, the cart holds exactly one line item for p with quantity min(n, 99);
\* an addItem on a line item already at 99 leaves it at 99.
C1_AddItemCountsUpToCap ==
    /\ \A id \in ProductIds :
         addRun[id] >= 1 =>
            /\ Len(ItemsFor(items, id)) = 1
            /\ ItemsFor(items, id)[1].quantity = Num(Min(addRun[id], 99))
    /\ last.op = "addItem" =>
         \A i \in DOMAIN before :
            (before[i].id = StrV(last.id) /\ before[i].quantity = Num(99))
               => items[i].quantity = Num(99)

\* C2: every line item's quantity is a whole number between 1 and 99.
C2_QuantityWithinBounds ==
    \A i \in DOMAIN items :
       /\ items[i].quantity.t = "num"
       /\ \E q \in 1..99 : items[i].quantity.n = 100 * q

\* C3: no two line items have the same product identifier.
C3_OneLineItemPerProduct ==
    \A i, j \in DOMAIN items : items[i].id = items[j].id => i = j

C6_UpdateOfAbsentIsNoOp ==
    (/\ last.op = "updateQuantity" /\ last.quantity > 0
     /\ \A i \in DOMAIN before : before[i].id # StrV(last.id)) =>
       /\ items = before
       /\ cartState.error = "null"

C6_Witness ==
    /\ last.op = "updateQuantity" /\ last.quantity > 0
    /\ \A i \in DOMAIN before : before[i].id # StrV(last.id)
    /\ before # <<>>

\* C7: a removeItem(id) that follows a removeItem(id) changes nothing, and
\* neither does a removeItem of an id the cart does not hold; no error is set.
C7_RemoveItemIdempotent ==
    last.op = "removeItem" =>
       /\ last.repeat => items = before
       /\ (\A i \in DOMAIN before : before[i].id # StrV(last.id)) => items = before
       /\ cartState.error = "null"

C7_Witness ==
    /\ last.op = "removeItem" /\ last.repeat
    /\ items # <<>>

\* C9: when the list last written to storage holds only valid CartLineItems,
\* the initialization of the next page load yields that very list.
C9_PersistThenLoadRoundTrip ==
    (/\ last.op = "initializeCart"
     /\ persisted.some
     /\ \A i \in DOMAIN persisted.items : CartLineItemShape(persisted.items[i])) =>
       items = persisted.items

C9_Witness ==
    /\ last.op = "initializeCart"
    /\ persisted.some
    /\ Len(persisted.items) = 2
    /\ \A i \in DOMAIN persisted.items : CartLineItemShape(persisted.items[i])
    /\ \E i \in DOMAIN persisted.items : persisted.items[i].quantity = Num(99)
    /\ items = persisted.items

\* C11: when initialization loads a stored array from which it drops at
\* least one invalid element, the text under the storage key is, once
\* initialization has finished, the array of the valid elements only.
C11_InitializationRepersistsCleanedArray ==
    [][(/\ ~initialized /\ initialized'
        /\ storage.kind = "array"
        /\ Len(parseAndValidateCart(storage)) < Len(storage.arr)) =>
          storage' = JSONstringify(parseAndValidateCart(storage))]_vars

(***************************************************************************)
(* The derivations of CartProvider: getTotal, getItemCount, getTotals.     *)
(* Amounts are in hundredths, as everywhere; a quantity q is the number    *)
(* 100 * q, so price * quantity is price.n * quantity.n / 100.             *)
(***************************************************************************)
\* items.reduce((sum, item) => sum + item.price * item.quantity, sum)
RECURSIVE reduceSubtotal(_, _)
reduceSubtotal(list, sum) ==
    IF list = <<>> THEN sum
    ELSE reduceSubtotal(Tail(list),
                        sum + (Head(list).price.n * Head(list).quantity.n) \div 100)

\* items.reduce((sum, item) => sum + item.quantity, sum)
RECURSIVE reduceItemCount(_, _)
reduceItemCount(list, sum) ==
    IF list = <<>> THEN sum
    ELSE reduceItemCount(Tail(list), sum + Head(list).quantity.n)

getTotal(list) == reduceSubtotal(list, 0)

getItemCount(list) == reduceItemCount(list, 0)

\* getTotals with shipping charged at the threshold itself
getTotals_strictThreshold(list) ==
    LET subtotal == reduceSubtotal(list, 0)
        shipping == IF subtotal > Num(50).n THEN 0 ELSE Hundredths(590).n
    IN  [subtotal |-> subtotal, shipping |-> shipping,
         total |-> subtotal + shipping,
         itemCount |-> reduceItemCount(list, 0)]

\* getTotals(): subtotal >= 50 ? 0 : 5.9
getTotals(list) ==
    LET subtotal == reduceSubtotal(list, 0)
        shipping == IF subtotal >= Num(50).n THEN 0 ELSE Hundredths(590).n
    IN  [subtotal |-> subtotal, shipping |-> shipping,
         total |-> subtotal + shipping,
         itemCount |-> reduceItemCount(list, 0)]

\* the sum of f[i] over the indices in S
RECURSIVE SumOver(_, _)
SumOver(S, f) ==
    IF S = {} THEN 0
    ELSE LET i == CHOOSE j \in S : TRUE IN f[i] + SumOver(S \ {i}, f)

\* C13: for every cart, getTotals() gives subtotal = the sum over the line
\* items of unit price x quantity, itemCount = the sum of the quantities,
\* shipping = 0 when subtotal >= 50.00 and 5.90 otherwise, and
\* total = subtotal + shipping.
C13_TotalsAreSubtotalPlusShipping ==
    LET totals == getTotals(items)
        lineTotal == [i \in DOMAIN items |->
                        (items[i].price.n \div 100) * items[i].quantity.n
                        + ((items[i].price.n % 100) * items[i].quantity.n) \div 100]
        quantityOf == [i \in DOMAIN items |-> items[i].quantity.n]
    IN  /\ totals.subtotal = SumOver(DOMAIN items, lineTotal)
        /\ totals.itemCount = SumOver(DOMAIN items, quantityOf)
        /\ totals.subtotal >= 5000 => totals.shipping = 0
        /\ totals.subtotal < 5000 => totals.shipping = 590
        /\ totals.total = totals.subtotal + totals.shipping

\* a cart of one product whose subtotal is the threshold itself, 50.00
C13_Witness ==
    /\ initialized
    /\ Len(items) = 1
    /\ getTotals(items).subtotal = 5000
    /\ getTotals(items).total = 5000
    /\ getTotals(items).itemCount = 400

(***************************************************************************)
(* The page: several fragments that use the cart (a CartProvider, or a     *)
(* useCart outside any provider: the same two effects), and the            *)
(* MobileMenu.  A step is one event handler, or one mount or unmount,      *)
(* together with the rendering and the effects it causes.                  *)
(***************************************************************************)
\* the mount of a fragment after the first: it renders with emptyState and
\* its overflow effect sets overflow = ''; its mount effect runs
\* setState({...getGlobalState()}) and addEventListener; the rendering that
\* follows runs the overflow effect again when isOpen has become true
Mount(f) ==
    /\ initialized
    /\ ~fragments[f].mounted
    /\ fragments' = [fragments EXCEPT ![f] = [mounted |-> TRUE, state |-> cartState]]
    /\ overflow' = IF cartState.isOpen THEN "hidden" ELSE ""
    /\ UNCHANGED <<storage, cartState, initialized, pending, last, before,
                   saved, persisted, addRun, nOps, menuOpen>>
    /\ UNCHANGED asyncHist
    /\ UNCHANGED fnVars
    /\ UNCHANGED heapVars

\* the unmount of a fragment: removeEventListener, and the cleanup of the
\* overflow effect (overflow = ''); its state is discarded
Unmount(f) ==
    /\ fragments[f].mounted
    /\ fragments' = [fragments EXCEPT ![f] = notMounted]
    /\ overflow' = ""
    /\ UNCHANGED <<storage, cartState, initialized, pending, last, before,
                   saved, persisted, addRun, nOps, menuOpen>>
    /\ UNCHANGED asyncHist
    /\ UNCHANGED fnVars
    /\ UNCHANGED heapVars

\* MobileMenu.openMenu, from the hamburger button while the menu is closed
openMenu ==
    /\ ~menuOpen
    /\ menuOpen' = TRUE
    /\ overflow' = "hidden"
    /\ UNCHANGED <<storage, cartState, initialized, pending, last, before,
                   saved, persisted, addRun, nOps, fragments>>
    /\ UNCHANGED asyncHist
    /\ UNCHANGED fnVars
    /\ UNCHANGED heapVars

\* MobileMenu.closeMenu, from the button, the overlay, a link or Escape
\* while the menu is open
closeMenu ==
    /\ menuOpen
    /\ menuOpen' = FALSE
    /\ overflow' = ""
    /\ UNCHANGED <<storage, cartState, initialized, pending, last, before,
                   saved, persisted, addRun, nOps, fragments>>
    /\ UNCHANGED asyncHist
    /\ UNCHANGED fnVars
    /\ UNCHANGED heapVars

FragmentTexts == {NoKey, ArrayText(<<Item(ProductOf(<<"a">>), 1)>>)}

InitFragments == InitWith(FragmentTexts)

\* the quantities the steppers of the page pass to updateQuantity here
FragmentQuantities == {0, 2}

NextFragments ==
    \/ initializeCart
    \/ Reload
    \/ \E product \in Products : addItem(product)
    \/ \E productId \in ProductIds : removeItem(productId)
    \/ \E productId \in ProductIds, quantity \in FragmentQuantities :
          updateQuantity(productId, quantity)
    \/ clearCart
    \/ openCart
    \/ closeCart
    \/ \E f \in Fragments : Mount(f)
    \/ \E f \in Fragments : Unmount(f)
    \/ openMenu
    \/ closeMenu

SpecFragments == InitFragments /\ [][NextFragments]_vars

\* C14: every fragment that is mounted holds a local snapshot whose items
\* and isOpen are those of the shared state, whatever mounts, unmounts and
\* mutators came before; a fragment that is not mounted holds nothing but
\* the emptyState it will start from (no notification has reached it).
C14_MountedFragmentsMirrorSharedState ==
    \A f \in Fragments :
        /\ fragments[f].mounted =>
              /\ fragments[f].state.items = cartState.items
              /\ fragments[f].state.isOpen = cartState.isOpen
        /\ ~fragments[f].mounted => fragments[f].state = emptyState

\* two fragments mounted, the second after a mutator and an openCart, and
\* one more mutator since
C14_Witness ==
    /\ \A f \in Fragments : fragments[f].mounted
    /\ last.op = "addItem"
    /\ Len(cartState.items) = 2
    /\ cartState.isOpen
    /\ \A f \in Fragments : fragments[f].state.items = cartState.items

\* C16: background scroll is suspended (body overflow hidden) exactly when
\* the cart sidebar is open or the mobile menu is open.
C16_ScrollSuspendedIffSidebarOrMenuOpen ==
    (overflow = "hidden") <=> (cartState.isOpen \/ menuOpen)

(***************************************************************************)
(* stores/cartStore.ts: the useCart hook whose mutators await the cart     *)
(* actions of actions/cart.ts.  Each mutator reads getState(), publishes   *)
(* {...current, isLoading: true}, and suspends in simulateDelay(); its     *)
(* continuation publishes {...current, items: data.cart} from the snapshot *)
(* it read before suspending.  The actions' catch branches need a throw    *)
(* that find, map and filter do not produce, so data is always set.        *)
(***************************************************************************)
\* saveToStorage that skips the write of an empty list
useCart_saveToStorage_nonEmptyOnly(list, ok) ==
    IF ok /\ list # <<>> THEN JSONstringify(list) ELSE storage

\* saveToStorage(items): setItem, whose exception (quota) is not caught here
useCart_saveToStorage(list, ok) == IF ok THEN JSONstringify(list) ELSE storage

\* loadFromStorage(): validate; rewrite storage when elements were dropped;
\* on any exception (JSON.parse of the raw text, setItem) remove the key and
\* return [].  Gives the items and the text left in storage; `text` is
\* what getItem returned (`saved` in the source).
useCart_loadFromStorage(text, ok) ==
    LET validatedItems == parseAndValidateCart(text)
        parsed == JSONparse(text)
    IN  IF text.kind \in {"absent", "empty"}
        THEN [items |-> validatedItems, left |-> text, wrote |-> FALSE]
        ELSE IF parsed.throws
        THEN [items |-> <<>>, left |-> NoKey, wrote |-> FALSE]
        ELSE IF parsed.isArray /\ Len(parsed.arr) # Len(validatedItems)
        THEN IF ok
             THEN [items |-> validatedItems,
                   left |-> useCart_saveToStorage(validatedItems, TRUE),
                   wrote |-> TRUE]
             ELSE [items |-> <<>>, left |-> NoKey, wrote |-> FALSE]
        ELSE [items |-> validatedItems, left |-> text, wrote |-> FALSE]

\* setState(newState) of the store; its useCart has no overflow effect
useCart_setState(newState) ==
    /\ cartState' = newState
    /\ fragments' = dispatchEvent(fragments, newState)

\* initializeCart() of the store, run by the mount effect of the first
\* fragment, which then copies the state and starts to listen
useCart_initializeCart ==
    /\ ~initialized
    /\ initialized' = TRUE
    /\ \E ok \in BOOLEAN :
         LET loaded == useCart_loadFromStorage(storage, ok) IN
           /\ storage' = loaded.left
           /\ cartState' = [emptyState EXCEPT !.items = loaded.items]
           /\ fragments' = [fragments EXCEPT
                              ![1] = [mounted |-> TRUE, state |-> cartState']]
           /\ persisted' = IF loaded.wrote THEN Persisted(loaded.items) ELSE persisted
           /\ base' = loaded.items
           /\ addRun' = RunAfterLoad(loaded.items)
    /\ last' = Op("initializeCart", NoId, 0)
    /\ before' = cartState.items
    /\ UNCHANGED <<pending, saved, log, nOps, nCalls, overflow, menuOpen>>
    /\ UNCHANGED fnVars
    /\ UNCHANGED heapVars

\* the first half of a mutator, up to its await
Suspend(name, id, quantity) ==
    /\ initialized
    /\ nCalls < MaxCalls
    /\ nCalls' = nCalls + 1
    /\ LET current == cartState IN
         /\ useCart_setState([current EXCEPT !.isLoading = TRUE])
         /\ pending' = pending \cup
               {[call |-> nCalls + 1, op |-> name, id |-> id,
                 quantity |-> quantity, current |-> current]}
    /\ log' = Append(log, [op |-> name, id |-> id, quantity |-> quantity])
    /\ UNCHANGED <<storage, initialized, last, before, saved, persisted,
                   addRun, base, nOps, overflow, menuOpen>>
    /\ UNCHANGED fnVars
    /\ UNCHANGED heapVars

useCart_addItem(product) == Suspend("addItem", product.id, 0)

useCart_removeItem(productId) == Suspend("removeItem", productId, 0)

useCart_updateQuantity(productId, quantity) ==
    Suspend("updateQuantity", productId, quantity)

useCart_clearCart == Suspend("clearCart", NoId, 0)

\* data.cart of the awaited action
ActionCart(name, id, quantity, currentCart) ==
    CASE name = "addItem" -> addToCart(ProductOf(id), currentCart)
      [] name = "removeItem" -> removeFromCart(id, currentCart)
      [] name = "updateQuantity" -> cartActions_updateQuantity(id, quantity, currentCart)
      [] OTHER -> cartActions_clearCart

\* the second half: setState({...current, items: data.cart, isLoading:
\* false}), then saveToStorage(data.cart)
Resume(c) ==
    /\ c \in pending
    /\ pending' = pending \ {c}
    /\ LET cart == ActionCart(c.op, c.id, c.quantity, c.current.items) IN
         /\ useCart_setState([c.current EXCEPT !.items = cart, !.isLoading = FALSE])
         /\ \E ok \in BOOLEAN :
              /\ storage' = useCart_saveToStorage(cart, ok)
              /\ saved' = IF ok THEN "ok" ELSE "failed"
              /\ persisted' = IF ok THEN Persisted(cart) ELSE persisted
    /\ last' = Op(c.op, c.id, c.quantity)
    /\ before' = cartState.items
    /\ UNCHANGED <<initialized, addRun, nOps, overflow, menuOpen>>
    /\ UNCHANGED asyncHist
    /\ UNCHANGED fnVars
    /\ UNCHANGED heapVars

\* openCart / closeCart of the store: setState({...getState(), isOpen}),
\* then document.body.style.overflow = 'hidden' or ''
useCart_SetOpen(name, open) ==
    /\ initialized
    /\ nCalls < MaxCalls
    /\ nCalls' = nCalls + 1
    /\ useCart_setState([cartState EXCEPT !.isOpen = open])
    /\ overflow' = IF open THEN "hidden" ELSE ""
    /\ UNCHANGED menuOpen
    /\ last' = Op(name, NoId, 0)
    /\ before' = cartState.items
    /\ UNCHANGED <<storage, initialized, pending, saved, persisted, addRun,
                   log, base, nOps>>
    /\ UNCHANGED fnVars
    /\ UNCHANGED heapVars

useCart_openCart == useCart_SetOpen("openCart", TRUE)

useCart_closeCart == useCart_SetOpen("closeCart", FALSE)

\* a page load while the store is in use: the suspended calls die with the
\* page
useCart_Reload ==
    /\ initialized
    /\ nCalls < MaxCalls
    /\ nCalls' = nCalls + 1
    /\ initialized' = FALSE
    /\ cartState' = emptyState
    /\ pending' = {}
    /\ saved' = "none"
    /\ last' = Op("reload", NoId, 0)
    /\ before' = cartState.items
    /\ log' = <<>>
    /\ base' = <<>>
    /\ fragments' = noFragments
    /\ overflow' = ""
    /\ menuOpen' = FALSE
    /\ UNCHANGED <<storage, persisted, addRun, nOps>>
    /\ UNCHANGED fnVars
    /\ UNCHANGED heapVars

NextAsync ==
    \/ useCart_initializeCart
    \/ useCart_Reload
    \/ \E product \in Products : useCart_addItem(product)
    \/ \E productId \in ProductIds : useCart_removeItem(productId)
    \/ \E productId \in ProductIds, quantity \in StoreQuantities :
          useCart_updateQuantity(productId, quantity)
    \/ useCart_clearCart
    \/ \E c \in pending : Resume(c)
    \/ useCart_openCart
    \/ useCart_closeCart

InitAsync == InitWith(StoreTexts)

SpecAsync == InitAsync /\ [][NextAsync]_vars

(***************************************************************************)
(* Properties of the suspending store.                                     *)
(***************************************************************************)
\* the mutator calls of `calls` applied to `cart` one after the other
RECURSIVE ApplyAll(_, _)
ApplyAll(cart, calls) ==
    IF calls = <<>> THEN cart
    ELSE ApplyAll(ActionCart(calls[1].op, calls[1].id, calls[1].quantity, cart),
                  Tail(calls))

\* the orders in which the calls of `calls` can be put
Orders(calls) ==
    { [i \in DOMAIN calls |-> calls[f[i]]] :
        f \in { g \in [DOMAIN calls -> DOMAIN calls] :
                  \A i, j \in DOMAIN calls : g[i] = g[j] => i = j } }

\* C4: once every mutator call made has completed, the cart is what the
\* calls give when applied one after the other in some order.
C4_NoLostUpdate ==
    (initialized /\ pending = {}) =>
       \E order \in Orders(log) : items = ApplyAll(base, order)

\* C29: a step of addItem, removeItem, updateQuantity or clearCart (up to
\* its await, or from it to its end) leaves isOpen as it is, and openCart and
\* closeCart leave the line items as they are, also while a mutator is in
\* flight.
C29_ItemMutatorsAndSidebarFlagAreIndependent ==
    [][/\ (initialized' /\ pending' # pending)
            => cartState'.isOpen = cartState.isOpen
       /\ (initialized' /\ pending' = pending /\ nCalls' = nCalls + 1)
            => cartState'.items = cartState.items]_vars

\* C8: with no mutator in flight and the latest mutator's storage write
\* done, the stored text is a JSON array equal to the line items, in order.
C8_StorageMirrorsItems ==
    (pending = {} /\ saved = "ok") =>
       /\ storage.kind = "array"
       /\ storage.arr = items

C8_Witness ==
    /\ pending = {} /\ saved = "ok"
    /\ Len(log) = 2
    /\ Len(items) = 2
    /\ storage.arr = items

\* C12: when the stored text is malformed JSON, or JSON whose top level is
\* not an array, initialization yields an empty cart and leaves no cart key
\* in storage.
C12_UnparsableBlobIsCleared ==
    [][(/\ ~initialized /\ initialized'
        /\ storage.kind \in {"malformed", "nonarray"}) =>
          /\ cartState'.items = <<>>
          /\ storage' = NoKey]_vars

(***************************************************************************)
(* parseAndValidateCart on its own: every text of the kinds above, the     *)
(* arrays built from elements that each miss the CartLineItem shape in one *)
(* way (the cases of validation.test.ts) or meet it at a limit.            *)
(***************************************************************************)
LongName(n) == [i \in 1..n |-> "x"]
GoodItem == Obj(StrV(<<"a", "-", "1">>), StrV(<<"A">>), Hundredths(1250),
                StrV(<<"/">>), Num(2))
ParseElements ==
    { GoodItem,
      [GoodItem EXCEPT !.name = StrV(LongName(MAX_NAME_LENGTH)),
                       !.price = Num(0), !.image = StrV(<<>>),
                       !.quantity = Num(MAX_QUANTITY)],
      [GoodItem EXCEPT !.id = StrV(<<>>)],
      [GoodItem EXCEPT !.id = StrV(<<"A">>)],
      [GoodItem EXCEPT !.id = StrV(<<"a", "_">>)],
      [GoodItem EXCEPT !.id = Num(1)],
      [GoodItem EXCEPT !.name = StrV(<<>>)],
      [GoodItem EXCEPT !.name = StrV(LongName(MAX_NAME_LENGTH + 1))],
      [GoodItem EXCEPT !.name = Num(123)],
      [GoodItem EXCEPT !.price = Num(-10)],
      [GoodItem EXCEPT !.price = Inf],
      [GoodItem EXCEPT !.price = StrV(<<"f">>)],
      [GoodItem EXCEPT !.image = Num(123)],
      [GoodItem EXCEPT !.image = Undef],
      [GoodItem EXCEPT !.quantity = Num(0)],
      [GoodItem EXCEPT !.quantity = Num(-1)],
      [GoodItem EXCEPT !.quantity = Num(MAX_QUANTITY + 1)],
      [GoodItem EXCEPT !.quantity = Hundredths(150)],
      [GoodItem EXCEPT !.quantity = StrV(<<"2">>)],
      NonObj("null"),
      NonObj("str") }
ParseInputs == TextsOver(ParseElements)

InitParse ==
    /\ storage = NoKey
    /\ cartState = emptyState
    /\ initialized = FALSE
    /\ pending = {}
    /\ last = [op |-> "start", id |-> NoId, quantity |-> 0, repeat |-> FALSE]
    /\ before = <<>>
    /\ saved = "none"
    /\ persisted = NotPersisted
    /\ addRun = [id \in ProductIds |-> -1]
    /\ log = <<>>
    /\ base = <<>>
    /\ nOps = 0
    /\ nCalls = 0
    /\ fnIn \in ParseInputs
    /\ fnOut = <<>>
    /\ fnDone = FALSE
    /\ pageLoaded

Call_parseAndValidateCart ==
    /\ ~fnDone
    /\ fnDone' = TRUE
    /\ fnOut' = parseAndValidateCart(fnIn)
    /\ UNCHANGED <<storage, cartState, initialized, pending, last, before,
                   saved, persisted, addRun, log, base, nOps, nCalls, fnIn>>
    /\ UNCHANGED uiVars
    /\ UNCHANGED heapVars

NextParse == Call_parseAndValidateCart

SpecParse == InitParse /\ [][NextParse]_vars

cartVars == <<storage, cartState, initialized, pending, last, before, saved,
              persisted, addRun, log, base, nOps, nCalls>>

Elems(seq) == { seq[i] : i \in DOMAIN seq }

\* { ...state, field: value } for each field of the FilterState
WithCategories(h, state, a) ==
    alloc(h, FilterStateCell([h[state].v EXCEPT !.categories = a]))
WithPlants(h, state, a) ==
    alloc(h, FilterStateCell([h[state].v EXCEPT !.plants = a]))

\* a toggle that only ever adds
Toggled_addOnly(array, x) ==
    IF x \in Elems(array) THEN array ELSE Append(array, x)

\* array.includes(x) ? array.filter((c) => c !== x) : [...array, x]
Toggled(array, x) ==
    IF x \in Elems(array)
    THEN SelectSeq(array, LAMBDA c : c # x)
    ELSE Append(array, x)

\* setCategories(categories): the caller's array literal, then the state
setCategories_heap(h, state, categories) ==
    LET h1 == alloc(h, ArrayCell(categories))
    IN  WithCategories(h1, state, Len(h1))

\* toggleCategory that pushes the new id into the array of the snapshot
toggleCategory_heap_push(h, state, categoryId) ==
    LET a == h[state].v.categories
    IN  IF categoryId \in Elems(h[a].v)
        THEN LET h1 == alloc(h, ArrayCell(Toggled(h[a].v, categoryId)))
             IN  WithCategories(h1, state, Len(h1))
        ELSE WithCategories([h EXCEPT ![a].v = Append(@, categoryId)], state, a)

toggleCategory_heap(h, state, categoryId) ==
    LET newCategories == Toggled(h[h[state].v.categories].v, categoryId)
        h1 == alloc(h, ArrayCell(newCategories))
    IN  WithCategories(h1, state, Len(h1))

setPlants_heap(h, state, plants) ==
    LET h1 == alloc(h, ArrayCell(plants))
    IN  WithPlants(h1, state, Len(h1))

togglePlant_heap(h, state, plantId) ==
    LET newPlants == Toggled(h[h[state].v.plants].v, plantId)
        h1 == alloc(h, ArrayCell(newPlants))
    IN  WithPlants(h1, state, Len(h1))

\* setPriceRange(range): the caller's [min, max] literal, then the state
setPriceRange_heap(h, state, range) ==
    LET h1 == alloc(h, ArrayCell(range))
    IN  alloc(h1, FilterStateCell([h[state].v EXCEPT !.priceRange = Len(h1)]))

setInStockOnly_heap(h, state, inStockOnly) ==
    alloc(h, FilterStateCell([h[state].v EXCEPT !.inStockOnly = inStockOnly]))

setSortBy_heap(h, state, sortBy) ==
    alloc(h, FilterStateCell([h[state].v EXCEPT !.sortBy = sortBy]))

setSearchQuery_heap(h, state, searchQuery) ==
    alloc(h, FilterStateCell([h[state].v EXCEPT !.searchQuery = searchQuery]))

\* resetFilters(): three new arrays and a new state
resetFilters_heap(h) ==
    LET h3 == alloc(alloc(alloc(h, ArrayCell(<<>>)), ArrayCell(<<>>)),
                    ArrayCell(<<Num(DEFAULT_PRICE_MIN), Num(DEFAULT_PRICE_MAX)>>))
    IN  alloc(h3, FilterStateCell(
            [categories |-> Len(h) + 1, plants |-> Len(h) + 2,
             priceRange |-> Len(h) + 3, inStockOnly |-> FALSE,
             sortBy |-> "default", searchQuery |-> <<>>]))

\* state = <the last cell of h>; emitChange()
filterStore_install(h) ==
    /\ nMutations < MaxMutations
    /\ nMutations' = nMutations + 1
    /\ heap' = h
    /\ filterStore_state' = Len(h)
    /\ snapshots' = Append(snapshots, Snapshot(h, Len(h)))
    /\ UNCHANGED <<cartStore_state, cartStore_isInitialized, overflowHidden,
                   globalState>>
    /\ UNCHANGED <<cartVars, fnVars, uiVars>>

CategoryIds == {"soins", "savons"}
PlantIds == {"lavande"}
PriceRanges == { <<Num(10), Num(50)>> }
SortOptions == {"default", "price-asc", "price-desc", "name-asc", "name-desc"}
SearchQueries == { <<"r", "o", "s", "e">> }

setCategories(categories) ==
    filterStore_install(setCategories_heap(heap, filterStore_state, categories))
toggleCategory(categoryId) ==
    filterStore_install(toggleCategory_heap(heap, filterStore_state, categoryId))
setPlants(plants) ==
    filterStore_install(setPlants_heap(heap, filterStore_state, plants))
togglePlant(plantId) ==
    filterStore_install(togglePlant_heap(heap, filterStore_state, plantId))
setPriceRange(range) ==
    filterStore_install(setPriceRange_heap(heap, filterStore_state, range))
setInStockOnly(inStockOnly) ==
    filterStore_install(setInStockOnly_heap(heap, filterStore_state, inStockOnly))
setSortBy(sortBy) ==
    filterStore_install(setSortBy_heap(heap, filterStore_state, sortBy))
setSearchQuery(searchQuery) ==
    filterStore_install(setSearchQuery_heap(heap, filterStore_state, searchQuery))
resetFilters == filterStore_install(resetFilters_heap(heap))

(***************************************************************************)
(* Line-item arrays by reference.                                          *)
(***************************************************************************)
\* the line items an items array refers to, as values
ItemValues(h, a) == [i \in DOMAIN h[a].v |-> h[h[a].v[i]].v]

\* JSON.parse of a stored array: an object per element, then the array
RECURSIVE allocItems(_, _, _)
allocItems(h, values, acc) ==
    IF values = <<>> THEN alloc(h, ArrayCell(acc))
    ELSE allocItems(alloc(h, CartItemCell(Head(values))), Tail(values),
                    Append(acc, Len(h) + 1))

\* items.map((item) => item.id === productId ? { ...item, quantity } : item):
\* a new object for each item that matches, the same object otherwise
RECURSIVE mapQuantity(_, _, _, _, _, _)
mapQuantity(h, addrs, productId, increment, quantity, acc) ==
    IF addrs = <<>> THEN alloc(h, ArrayCell(acc))
    ELSE IF h[Head(addrs)].v.id = StrV(productId)
    THEN mapQuantity(
            alloc(h, CartItemCell([h[Head(addrs)].v EXCEPT !.quantity =
                    IF increment THEN Increment(@) ELSE Num(quantity)])),
            Tail(addrs), productId, increment, quantity, Append(acc, Len(h) + 1))
    ELSE mapQuantity(h, Tail(addrs), productId, increment, quantity,
                     Append(acc, Head(addrs)))

\* items.filter((item) => item.id !== productId): a new array of the same
\* objects
filterOthers(h, array, productId) ==
    alloc(h, ArrayCell(SelectSeq(h[array].v,
                                 LAMBDA a : h[a].v.id # StrV(productId))))

\* addItem's newItems: the map when the product is in the cart, and
\* [...items, { ...product, quantity: 1 }] when it is not
addItem_array(h, array, product) ==
    IF \E a \in Elems(h[array].v) : h[a].v.id = StrV(product.id)
    THEN mapQuantity(h, h[array].v, product.id, TRUE, 0, <<>>)
    ELSE LET h1 == alloc(h, CartItemCell(Item(product, 1)))
         IN  alloc(h1, ArrayCell(Append(h[array].v, Len(h1))))

\* updateQuantity's newItems
updateQuantity_array(h, array, productId, quantity) ==
    IF quantity <= 0
    THEN filterOthers(h, array, productId)
    ELSE mapQuantity(h, h[array].v, productId, FALSE, quantity, <<>>)

\* { ...state, items: <the last cell of h> }
WithItems(h, state) ==
    alloc(h, CartStateCell([h[state].v EXCEPT !.items = Len(h)]))

(***************************************************************************)
(* cartStore (useSyncExternalStore).  saveToStorage is not guarded: when   *)
(* setItem throws, the new state is installed and emitChange is not        *)
(* reached.  The useCart effect runs initialize() on mount, so the         *)
(* handlers of the page run after it; addItem alone runs it itself.        *)
(***************************************************************************)
\* state = <the last cell of h>, after the states of `earlier` (installed
\* by a nested initialize()); saveToStorage when the mutator has one
cartStore_publish(h, earlier, saves) ==
    /\ nMutations < MaxMutations
    /\ nMutations' = nMutations + 1
    /\ heap' = h
    /\ cartStore_state' = Len(h)
    /\ cartStore_isInitialized' = TRUE
    /\ snapshots' = snapshots \o [i \in DOMAIN earlier |-> Snapshot(h, earlier[i])]
                               \o <<Snapshot(h, Len(h))>>
    /\ IF saves
       THEN \E ok \in BOOLEAN :
              storage' = IF ok THEN JSONstringify(ItemValues(h, h[Len(h)].v.items))
                         ELSE storage
       ELSE UNCHANGED storage
    /\ UNCHANGED <<filterStore_state, globalState>>
    /\ UNCHANGED <<cartState, initialized, pending, last, before, saved,
                   persisted, addRun, log, base, nOps, nCalls>>
    /\ UNCHANGED <<fnVars, uiVars>>

\* a mutator that leaves the class list of the body alone
cartStore_install(h, earlier, saves) ==
    /\ cartStore_publish(h, earlier, saves)
    /\ UNCHANGED overflowHidden

\* loadFromStorage(): saved ? JSON.parse(saved) : [], and [] when it throws
cartStore_loadFromStorage(text) ==
    IF text.kind = "array" THEN text.arr ELSE <<>>

\* initialize(): installs a state only when items were loaded
cartStore_initialize_heap(h, state, text) ==
    IF cartStore_loadFromStorage(text) = <<>> THEN h
    ELSE WithItems(allocItems(h, cartStore_loadFromStorage(text), <<>>), state)

\* the address of `state` after initialize()
cartStore_initialize_state(h, state, text) ==
    IF cartStore_loadFromStorage(text) = <<>> THEN state
    ELSE Len(cartStore_initialize_heap(h, state, text))

cartStore_initialize ==
    /\ ~cartStore_isInitialized
    /\ cartStore_loadFromStorage(storage) # <<>>
    /\ cartStore_install(cartStore_initialize_heap(heap, cartStore_state, storage),
                         <<>>, FALSE)

\* initialize() that finds nothing: only isInitialized changes
cartStore_initialize_empty ==
    /\ ~cartStore_isInitialized
    /\ cartStore_loadFromStorage(storage) = <<>>
    /\ cartStore_isInitialized' = TRUE
    /\ UNCHANGED <<heap, filterStore_state, cartStore_state, overflowHidden,
                   globalState, snapshots, nMutations>>
    /\ UNCHANGED <<cartVars, fnVars, uiVars>>

\* openCart() / closeCart(): the state, then classList.add or remove of
\* 'overflow-hidden', then emitChange()
cartStore_SetOpen(open) ==
    /\ cartStore_isInitialized
    /\ cartStore_publish(
          alloc(heap, CartStateCell([heap[cartStore_state].v EXCEPT !.isOpen = open])),
          <<>>, FALSE)
    /\ overflowHidden' = open
cartStore_openCart == cartStore_SetOpen(TRUE)
cartStore_closeCart == cartStore_SetOpen(FALSE)
cartStore_toggleCart == cartStore_SetOpen(~heap[cartStore_state].v.isOpen)

\* addItem(product): initialize() first when it has not run
cartStore_addItem(product) ==
    LET h0 == IF cartStore_isInitialized THEN heap
              ELSE cartStore_initialize_heap(heap, cartStore_state, storage)
        state == IF cartStore_isInitialized THEN cartStore_state
                 ELSE cartStore_initialize_state(heap, cartStore_state, storage)
    IN  cartStore_install(
            WithItems(addItem_array(h0, h0[state].v.items, product), state),
            IF state = cartStore_state THEN <<>> ELSE <<state>>, TRUE)

cartStore_removeItem(productId) ==
    /\ cartStore_isInitialized
    /\ cartStore_install(
          WithItems(filterOthers(heap, heap[cartStore_state].v.items, productId),
                    cartStore_state),
          <<>>, TRUE)

cartStore_updateQuantity(productId, quantity) ==
    /\ cartStore_isInitialized
    /\ cartStore_install(
          WithItems(updateQuantity_array(heap, heap[cartStore_state].v.items,
                                         productId, quantity),
                    cartStore_state),
          <<>>, TRUE)

cartStore_clear ==
    /\ cartStore_isInitialized
    /\ cartStore_install(WithItems(alloc(heap, ArrayCell(<<>>)), cartStore_state),
                         <<>>, TRUE)

(***************************************************************************)
(* CartProvider: current = getGlobalState();                               *)
(* setGlobalState({ ...current, isLoading: true }); newItems;              *)
(* saveToStorage(newItems);                                                *)
(* setGlobalState({ ...current, items: newItems, isLoading: false }).      *)
(***************************************************************************)
\* initializeCart(): window.__beaucharmeCartState = { ...emptyState, items }
CartProvider_initializeCart ==
    /\ globalState = Undefined
    /\ nMutations < MaxMutations
    /\ nMutations' = nMutations + 1
    /\ heap' = WithItems(allocItems(heap, loadFromStorage(storage), <<>>),
                         CartContext_emptyState)
    /\ globalState' = Len(heap')
    /\ snapshots' = Append(snapshots, Snapshot(heap', Len(heap')))
    /\ UNCHANGED <<filterStore_state, cartStore_state, cartStore_isInitialized,
                   overflowHidden>>
    /\ UNCHANGED <<cartVars, fnVars, uiVars>>

\* the two setGlobalState calls of a mutator whose new array is the last
\* cell of h
CartProvider_install(h) ==
    /\ globalState # Undefined
    /\ nMutations < MaxMutations
    /\ nMutations' = nMutations + 1
    /\ LET current == globalState
           loading == Len(heap) + 1
           h1 == alloc(h, CartStateCell([h[current].v EXCEPT
                            !.items = Len(h), !.isLoading = FALSE]))
       IN  /\ heap' = h1
           /\ globalState' = Len(h1)
           /\ snapshots' = snapshots \o
                  <<Snapshot(h, loading), Snapshot(h1, Len(h1))>>
           /\ \E ok \in BOOLEAN :
                storage' = saveToStorage(ItemValues(h1, h1[Len(h1)].v.items), ok)
    /\ UNCHANGED <<filterStore_state, cartStore_state, cartStore_isInitialized,
                   overflowHidden>>
    /\ UNCHANGED <<cartState, initialized, pending, last, before, saved,
                   persisted, addRun, log, base, nOps, nCalls>>
    /\ UNCHANGED <<fnVars, uiVars>>

\* { ...current, isLoading: true }
Loading(h, current) ==
    alloc(h, CartStateCell([h[current].v EXCEPT !.isLoading = TRUE]))

CartProvider_addItem(product) ==
    CartProvider_install(addItem_array(Loading(heap, globalState),
                                       heap[globalState].v.items, product))

CartProvider_removeItem(productId) ==
    CartProvider_install(filterOthers(Loading(heap, globalState),
                                      heap[globalState].v.items, productId))

CartProvider_updateQuantity(productId, quantity) ==
    CartProvider_install(updateQuantity_array(Loading(heap, globalState),
                             heap[globalState].v.items, productId, quantity))

CartProvider_clearCart ==
    CartProvider_install(alloc(Loading(heap, globalState), ArrayCell(<<>>)))

\* openCart / closeCart: setGlobalState({ ...getGlobalState(), isOpen })
CartProvider_SetOpen(open) ==
    /\ globalState # Undefined
    /\ nMutations < MaxMutations
    /\ nMutations' = nMutations + 1
    /\ heap' = alloc(heap, CartStateCell([heap[globalState].v EXCEPT !.isOpen = open]))
    /\ globalState' = Len(heap')
    /\ snapshots' = Append(snapshots, Snapshot(heap', Len(heap')))
    /\ UNCHANGED <<filterStore_state, cartStore_state, cartStore_isInitialized,
                   overflowHidden>>
    /\ UNCHANGED <<cartVars, fnVars, uiVars>>
CartProvider_openCart == CartProvider_SetOpen(TRUE)
CartProvider_closeCart == CartProvider_SetOpen(FALSE)

HeapProducts == { ProductOf(<<"a">>) }
HeapQuantities == {0, 2}

InitHeap == InitWith(FragmentTexts)

NextHeap ==
    \/ \E categories \in {<<>>, <<"soins">>} : setCategories(categories)
    \/ \E categoryId \in CategoryIds : toggleCategory(categoryId)
    \/ \E plants \in {<<"lavande">>} : setPlants(plants)
    \/ \E plantId \in PlantIds : togglePlant(plantId)
    \/ \E range \in PriceRanges : setPriceRange(range)
    \/ \E inStockOnly \in BOOLEAN : setInStockOnly(inStockOnly)
    \/ \E sortBy \in SortOptions : setSortBy(sortBy)
    \/ \E searchQuery \in SearchQueries : setSearchQuery(searchQuery)
    \/ resetFilters
    \/ cartStore_initialize
    \/ cartStore_initialize_empty
    \/ cartStore_openCart
    \/ cartStore_closeCart
    \/ cartStore_toggleCart
    \/ \E product \in HeapProducts : cartStore_addItem(product)
    \/ \E product \in HeapProducts : cartStore_removeItem(product.id)
    \/ \E product \in HeapProducts, quantity \in HeapQuantities :
          cartStore_updateQuantity(product.id, quantity)
    \/ cartStore_clear
    \/ CartProvider_initializeCart
    \/ \E product \in HeapProducts : CartProvider_addItem(product)
    \/ \E product \in HeapProducts : CartProvider_removeItem(product.id)
    \/ \E product \in HeapProducts, quantity \in HeapQuantities :
          CartProvider_updateQuantity(product.id, quantity)
    \/ CartProvider_clearCart
    \/ CartProvider_openCart
    \/ CartProvider_closeCart

SpecHeap == InitHeap /\ [][NextHeap]_vars

\* C15: every snapshot installed is a newly created object, and no cell
\* that a reader could reach from a snapshot installed earlier (the state
\* object, its line-item and tag arrays, its line items) has changed since.
C15_PublishedSnapshotsAreNeverModified ==
    /\ \A i \in DOMAIN snapshots :
          \A a \in DOMAIN snapshots[i].cells : heap[a] = snapshots[i].cells[a]
    /\ \A i, j \in DOMAIN snapshots :
          i < j => snapshots[j].snapshot \notin DOMAIN snapshots[i].cells
    /\ {filterStore_state, cartStore_state} \cup ({globalState} \ {Undefined})
          \subseteq { snapshots[i].snapshot : i \in DOMAIN snapshots }

\* a line item and a tag array read from earlier snapshots, and later
\* mutators that gave the product another quantity and the filter another
\* tag
C15_Witness ==
    /\ \E i \in DOMAIN snapshots :
          /\ heap[snapshots[i].snapshot].k = "FilterState"
          /\ heap[heap[snapshots[i].snapshot].v.categories].v = <<>>
          /\ heap[heap[filterStore_state].v.categories].v = <<"soins">>
    /\ \E i \in DOMAIN snapshots :
          /\ heap[snapshots[i].snapshot].k = "CartState"
          /\ ItemValues(heap, heap[snapshots[i].snapshot].v.items)
               = <<Item(ProductOf(<<"a">>), 1)>>
          /\ globalState # Undefined
          /\ ItemValues(heap, heap[globalState].v.items)
               = <<Item(ProductOf(<<"a">>), 2)>>

(***************************************************************************)
(* The filter and sort pipeline: filteredProducts of FilteredProductGrid   *)
(* (what the store page renders) and filterProducts / sortProducts of      *)
(* services/ProductService.ts.  Prices are in hundredths; strings are      *)
(* tuples of characters.                                                   *)
(***************************************************************************)
UpperCase ==
    <<"A", "B", "C", "D", "E", "F", "G", "H", "I", "J", "K", "L", "M",
      "N", "O", "P", "Q", "R", "S", "T", "U", "V", "W", "X", "Y", "Z">>
Alphabet ==
    <<"a", "b", "c", "d", "e", "f", "g", "h", "i", "j", "k", "l", "m",
      "n", "o", "p", "q", "r", "s", "t", "u", "v", "w", "x", "y", "z">>

\* String.prototype.toLowerCase
toLowerCase(s) ==
    [i \in DOMAIN s |->
        IF \E k \in DOMAIN UpperCase : UpperCase[k] = s[i]
        THEN Alphabet[CHOOSE k \in DOMAIN UpperCase : UpperCase[k] = s[i]]
        ELSE s[i]]

\* String.prototype.trim
RECURSIVE trimStart(_)
trimStart(s) == IF s # <<>> /\ Head(s) = " " THEN trimStart(Tail(s)) ELSE s
RECURSIVE trimEnd(_)
trimEnd(s) ==
    IF s # <<>> /\ s[Len(s)] = " " THEN trimEnd(SubSeq(s, 1, Len(s) - 1)) ELSE s
trim(s) == trimEnd(trimStart(s))

\* String.prototype.includes
includes(s, q) ==
    \E i \in 0..(Len(s) - Len(q)) : SubSeq(s, i + 1, i + Len(q)) = q

\* a.localeCompare(b, 'fr') on unaccented letters and spaces: the letters
\* decide whatever their case; between strings with the same letters the
\* first difference of case decides, lower case first
CharRank(c) ==
    IF \E k \in DOMAIN Alphabet : Alphabet[k] = c
    THEN CHOOSE k \in DOMAIN Alphabet : Alphabet[k] = c
    ELSE 0
RECURSIVE compareRanks(_, _)
compareRanks(a, b) ==
    IF a = <<>> /\ b = <<>> THEN 0
    ELSE IF a = <<>> THEN -1
    ELSE IF b = <<>> THEN 1
    ELSE IF CharRank(Head(a)) # CharRank(Head(b))
    THEN CharRank(Head(a)) - CharRank(Head(b))
    ELSE compareRanks(Tail(a), Tail(b))
RECURSIVE compareCase(_, _)
compareCase(a, b) ==
    IF a = <<>> \/ b = <<>> THEN 0
    ELSE IF Head(a) = Head(b) THEN compareCase(Tail(a), Tail(b))
    ELSE IF Head(a) = toLowerCase(<<Head(a)>>)[1] THEN -1 ELSE 1
localeCompare(a, b) ==
    IF compareRanks(toLowerCase(a), toLowerCase(b)) # 0
    THEN compareRanks(toLowerCase(a), toLowerCase(b))
    ELSE compareCase(a, b)

\* an optional field: absent, or present with a value
Absent == [t |-> "undefined", v |-> <<>>]
Present(v) == [t |-> "defined", v |-> v]

\* the comparators handed to Array.prototype.sort
Compare(sortBy, a, b) ==
    CASE sortBy = "price-asc" -> a.price - b.price
      [] sortBy = "price-desc" -> b.price - a.price
      [] sortBy = "name-asc" -> localeCompare(a.name, b.name)
      [] sortBy = "name-desc" -> localeCompare(b.name, a.name)
      [] OTHER -> (IF b.featured = Present(TRUE) THEN 1 ELSE 0)
                    - (IF a.featured = Present(TRUE) THEN 1 ELSE 0)

\* Array.prototype.sort(compare), which is stable: x goes before the first
\* element that compares greater than x
RECURSIVE insert(_, _, _)
insert(sortBy, sorted, x) ==
    IF sorted = <<>> THEN <<x>>
    ELSE IF Compare(sortBy, Head(sorted), x) > 0 THEN <<x>> \o sorted
    ELSE <<Head(sorted)>> \o insert(sortBy, Tail(sorted), x)
RECURSIVE sort(_, _, _)
sort(sortBy, list, sorted) ==
    IF list = <<>> THEN sorted
    ELSE sort(sortBy, Tail(list), insert(sortBy, sorted, Head(list)))

\* the query test of FilteredProductGrid: name, description, ingredients
grid_matchesQuery(p, query) ==
    \/ includes(toLowerCase(p.name), query)
    \/ includes(toLowerCase(p.description), query)
    \/ \E i \in DOMAIN p.ingredients : includes(toLowerCase(p.ingredients[i]), query)

\* p.plants && p.plants.some((plant) => plants.includes(plant))
hasPlant(p, plants) ==
    /\ p.plants.t = "defined"
    /\ \E i \in DOMAIN p.plants.v : p.plants.v[i] \in Elems(plants)

\* filteredProducts of FilteredProductGrid
filteredProducts(products, f) ==
    LET query == toLowerCase(f.searchQuery)
        r1 == IF trim(f.searchQuery) # <<>>
              THEN SelectSeq(products, LAMBDA p : grid_matchesQuery(p, query))
              ELSE products
        r2 == IF Len(f.categories) > 0
              THEN SelectSeq(r1, LAMBDA p : p.category \in Elems(f.categories))
              ELSE r1
        r3 == IF Len(f.plants) > 0
              THEN SelectSeq(r2, LAMBDA p : hasPlant(p, f.plants))
              ELSE r2
        r4 == SelectSeq(r3, LAMBDA p : p.price >= f.priceRange[1]
                                       /\ p.price <= f.priceRange[2])
        r5 == IF f.inStockOnly THEN SelectSeq(r4, LAMBDA p : p.inStock) ELSE r4
    IN  sort(IF f.sortBy \in {"price-asc", "price-desc", "name-asc", "name-desc"}
             THEN f.sortBy ELSE "featured",
             r5, <<>>)

\* a sortProducts that orders 'default' as the grid does
sortProducts_featuredFirst(list, sortBy) ==
    sort(IF sortBy \in {"price-asc", "price-desc", "name-asc", "name-desc"}
         THEN sortBy ELSE "featured",
         list, <<>>)

\* the array handed to sortProducts, after the call: sortProducts sorts
\* [...items], so the argument keeps its order
sortProducts_argument(list, sortBy) == list

\* sortProducts of ProductService: a sorted copy, and the copy as it is for
\* 'default'
sortProducts(list, sortBy) ==
    IF sortBy \in {"price-asc", "price-desc", "name-asc", "name-desc"}
    THEN sort(sortBy, list, <<>>)
    ELSE list

\* the query test of ProductService.filterProducts: name, description,
\* category
service_matchesQuery(p, query) ==
    \/ includes(toLowerCase(p.name), query)
    \/ includes(toLowerCase(p.description), query)
    \/ includes(toLowerCase(p.category), query)

\* filterProducts of ProductService, called with every filter set
filterProducts(list, filters) ==
    LET f1 == IF Len(filters.categories) > 0
              THEN SelectSeq(list, LAMBDA p : p.category \in Elems(filters.categories))
              ELSE list
        f2 == IF Len(filters.plants) > 0
              THEN SelectSeq(f1, LAMBDA p : hasPlant(p, filters.plants))
              ELSE f1
        f3 == SelectSeq(f2, LAMBDA p : p.price >= filters.priceRange[1]
                                       /\ p.price <= filters.priceRange[2])
        f4 == IF filters.inStockOnly THEN SelectSeq(f3, LAMBDA p : p.inStock) ELSE f3
        query == trim(toLowerCase(filters.searchQuery))
        f5 == IF filters.searchQuery # <<>> /\ trim(filters.searchQuery) # <<>>
              THEN SelectSeq(f4, LAMBDA p : service_matchesQuery(p, query))
              ELSE f4
    IN  sortProducts(f5, filters.sortBy)

(***************************************************************************)
(* Catalogs and criteria.                                                  *)
(***************************************************************************)
CatalogProducts ==
    { [id |-> "rose", name |-> <<"R", "o", "s", "e">>, category |-> <<"s", "o", "i", "n", "s">>,
       price |-> 1250, description |-> <<"e", "a", "u">>,
       ingredients |-> <<<<"A", "l", "o", "e">>>>, plants |-> Present(<<"rose">>),
       inStock |-> TRUE, featured |-> Absent],
      [id |-> "bain", name |-> <<"B", "a", "i", "n">>, category |-> <<"s", "a", "v", "o", "n", "s">>,
       price |-> 3900, description |-> <<"s", "e", "l">>,
       ingredients |-> <<<<"k", "a", "r", "i", "t", "e">>>>, plants |-> Absent,
       inStock |-> FALSE, featured |-> Present(TRUE)],
      [id |-> "aloe", name |-> <<"A", "l", "o", "e">>, category |-> <<"s", "o", "i", "n", "s">>,
       price |-> 3900, description |-> <<"g", "e", "l">>,
       ingredients |-> <<<<"e", "a", "u">>, <<"r", "o", "s", "e">>>>,
       plants |-> Present(<<"aloe">>),
       inStock |-> TRUE, featured |-> Present(TRUE)],
      [id |-> "sel", name |-> <<"S", "e", "l">>, category |-> <<"s", "a", "v", "o", "n", "s">>,
       price |-> 1250, description |-> <<"b", "a", "i", "n">>,
       ingredients |-> <<>>, plants |-> Present(<<"aloe", "rose">>),
       inStock |-> TRUE, featured |-> Present(FALSE)] }

\* the catalogs: lists of distinct products
Catalogs ==
    { c \in SeqsUpTo(CatalogProducts, MaxCatalog) :
        \A i, j \in DOMAIN c : i # j => c[i] # c[j] }

Criteria ==
    [categories : {<<>>, << <<"s", "o", "i", "n", "s">> >>,
                   << <<"s", "a", "v", "o", "n", "s">>, <<"s", "o", "i", "n", "s">> >>},
     plants : {<<>>, <<"rose">>},
     priceRange : {<<0, 10000>>, <<1250, 1250>>},
     inStockOnly : BOOLEAN,
     sortBy : SortOptions,
     searchQuery : {<<>>, <<"R", "O">>, <<"e", "a", "u">>, <<"s", "a", "v">>,
                    <<"k", "a", "r">>}]

PipelineInputs == [products : Catalogs, criteria : Criteria]

InitPipeline ==
    /\ storage = NoKey
    /\ cartState = emptyState
    /\ initialized = FALSE
    /\ pending = {}
    /\ last = [op |-> "start", id |-> NoId, quantity |-> 0, repeat |-> FALSE]
    /\ before = <<>>
    /\ saved = "none"
    /\ persisted = NotPersisted
    /\ addRun = [id \in ProductIds |-> -1]
    /\ log = <<>>
    /\ base = <<>>
    /\ nOps = 0
    /\ nCalls = 0
    /\ fnIn \in PipelineInputs
    /\ fnOut = [by |-> "none", list |-> <<>>]
    /\ fnDone = FALSE
    /\ pageLoaded

\* the grid renders: its useMemo computes filteredProducts
Render_filteredProducts ==
    /\ ~fnDone
    /\ fnDone' = TRUE
    /\ fnOut' = [by |-> "filteredProducts",
                 list |-> filteredProducts(fnIn.products, fnIn.criteria)]
    /\ UNCHANGED <<cartVars, fnIn, uiVars, heapVars>>

\* a call of ProductService.filterProducts
Call_filterProducts ==
    /\ ~fnDone
    /\ fnDone' = TRUE
    /\ fnOut' = [by |-> "filterProducts",
                 list |-> filterProducts(fnIn.products, fnIn.criteria)]
    /\ UNCHANGED <<cartVars, fnIn, uiVars, heapVars>>

\* a call of ProductService.sortProducts on the catalog
Call_sortProducts ==
    /\ ~fnDone
    /\ fnDone' = TRUE
    /\ fnOut' = [by |-> "sortProducts",
                 list |-> sortProducts(fnIn.products, fnIn.criteria.sortBy),
                 argument |-> sortProducts_argument(fnIn.products, fnIn.criteria.sortBy)]
    /\ UNCHANGED <<cartVars, fnIn, uiVars, heapVars>>

NextPipeline == Render_filteredProducts \/ Call_filterProducts \/ Call_sortProducts

SpecPipeline == InitPipeline /\ [][NextPipeline]_vars

(***************************************************************************)
(* The five predicates of the pipeline, as the contract words them.        *)
(***************************************************************************)
FreeTextMatch(p, c) ==
    \/ c.searchQuery = <<>>
    \/ LET q == toLowerCase(c.searchQuery) IN
         \/ includes(toLowerCase(p.name), q)
         \/ includes(toLowerCase(p.description), q)
         \/ \E i \in DOMAIN p.ingredients : includes(toLowerCase(p.ingredients[i]), q)
CategoryMatch(p, c) ==
    c.categories = <<>> \/ \E i \in DOMAIN c.categories : c.categories[i] = p.category
PlantMatch(p, c) ==
    c.plants = <<>>
      \/ (p.plants.t = "defined" /\ Elems(p.plants.v) \cap Elems(c.plants) # {})
PriceMatch(p, c) == c.priceRange[1] <= p.price /\ p.price <= c.priceRange[2]
StockMatch(p, c) == c.inStockOnly => p.inStock
AllFive(p, c) ==
    /\ FreeTextMatch(p, c) /\ CategoryMatch(p, c) /\ PlantMatch(p, c)
    /\ PriceMatch(p, c) /\ StockMatch(p, c)

\* C17: each product of the pipeline output is a product of the catalog and
\* satisfies the five predicates for the criteria, and the same catalog and
\* criteria give the same list again.
C17_OutputIsCatalogSubsetSatisfyingAllFive ==
    fnDone =>
      /\ \A i \in DOMAIN fnOut.list :
            /\ fnOut.list[i] \in Elems(fnIn.products)
            /\ AllFive(fnOut.list[i], fnIn.criteria)
      /\ fnOut.by = "filteredProducts" =>
            fnOut.list = filteredProducts(fnIn.products, fnIn.criteria)
      /\ fnOut.by = "filterProducts" =>
            fnOut.list = filterProducts(fnIn.products, fnIn.criteria)

\* C18: every product of the catalog that satisfies the five predicates is
\* in the output exactly once; with an out-of-stock product at 39.00 and an
\* in-stock product at 12.50, in-stock-only with sort by ascending price
\* gives the list of the 12.50 product alone.
C18_EveryMatchAppearsExactlyOnce ==
    fnDone =>
      /\ \A k \in DOMAIN fnIn.products :
            AllFive(fnIn.products[k], fnIn.criteria) =>
               Cardinality({ i \in DOMAIN fnOut.list :
                               fnOut.list[i] = fnIn.products[k] }) = 1
      /\ (/\ Len(fnIn.products) = 2
          /\ \E k \in 1..2 : ~fnIn.products[k].inStock /\ fnIn.products[k].price = 3900
          /\ \E k \in 1..2 : fnIn.products[k].inStock /\ fnIn.products[k].price = 1250
          /\ fnIn.criteria = [categories |-> <<>>, plants |-> <<>>,
                              priceRange |-> <<0, 10000>>, inStockOnly |-> TRUE,
                              sortBy |-> "price-asc", searchQuery |-> <<>>]) =>
            /\ Len(fnOut.list) = 1
            /\ fnOut.list[1].price = 1250

\* C19: a product passes the free-text filter exactly when the query is
\* empty or is, case ignored, a substring of its name, of its description
\* or of one of its ingredient tags (checked with the other four filters
\* letting everything through).
C19_FreeTextMatchesNameDescriptionIngredients ==
    (/\ fnDone
     /\ fnIn.criteria.categories = <<>> /\ fnIn.criteria.plants = <<>>
     /\ fnIn.criteria.priceRange = <<0, 10000>> /\ ~fnIn.criteria.inStockOnly) =>
       \A k \in DOMAIN fnIn.products :
          (fnIn.products[k] \in Elems(fnOut.list))
             <=> FreeTextMatch(fnIn.products[k], fnIn.criteria)

\* C20: with sort key 'default' every featured product of the output comes
\* before every product that is not featured, and within each of the two
\* groups the products are in their catalog order.
C20_DefaultSortPutsFeaturedFirst ==
    (fnDone /\ fnIn.criteria.sortBy = "default") =>
       \A i, j \in DOMAIN fnOut.list :
          i < j =>
             LET a == fnOut.list[i]
                 b == fnOut.list[j]
                 Position(p) == CHOOSE k \in DOMAIN fnIn.products : fnIn.products[k] = p
             IN  /\ ~(a.featured # Present(TRUE) /\ b.featured = Present(TRUE))
                 /\ (a.featured = Present(TRUE)) = (b.featured = Present(TRUE))
                       => Position(a) < Position(b)

\* C21: sortProducts(items, 'default') returns the items in their input
\* order, and the input list is as it was.
C21_DefaultSortReturnsInputOrder ==
    (fnDone /\ fnOut.by = "sortProducts" /\ fnIn.criteria.sortBy = "default") =>
       /\ fnOut.list = fnIn.products
       /\ fnOut.argument = fnIn.products

\* a default sort of a catalog where a product that is not featured comes
\* before a featured one
C21_Witness ==
    /\ fnDone /\ fnOut.by = "sortProducts" /\ fnIn.criteria.sortBy = "default"
    /\ \E i, j \in DOMAIN fnIn.products :
          /\ i < j
          /\ fnIn.products[i].featured # Present(TRUE)
          /\ fnIn.products[j].featured = Present(TRUE)

(***************************************************************************)
(* sanitizeSearchQuery and validatePriceRange of utils/validation.ts.      *)
(***************************************************************************)
\* query.replace(/<[^>]*>/g, ''): from each "<" up to the first ">" after it
RECURSIVE removeTags(_)
removeTags(s) ==
    IF \A i \in DOMAIN s : s[i] # "<" THEN s
    ELSE LET open == CHOOSE i \in DOMAIN s :
                        s[i] = "<" /\ \A k \in 1..(i - 1) : s[k] # "<"
             rest == SubSeq(s, open + 1, Len(s))
         IN  IF \E j \in DOMAIN rest : rest[j] = ">"
             THEN LET close == CHOOSE j \in DOMAIN rest :
                                  rest[j] = ">" /\ \A k \in 1..(j - 1) : rest[k] # ">"
                  IN  SubSeq(s, 1, open - 1)
                         \o removeTags(SubSeq(rest, close + 1, Len(rest)))
             ELSE SubSeq(s, 1, open) \o removeTags(rest)

\* the grave accent (U+0060), as a character of a string
GraveAccent == "U+0060"
\* .replace(/[<>"'\u0060]/g, '')
DangerousCharacters == {"<", ">", "\"", "'", GraveAccent}
removeDangerous(s) == SelectSeq(s, LAMBDA c : c \notin DangerousCharacters)

\* .slice(0, n)
slice(s, n) == SubSeq(s, 1, IF Len(s) < n THEN Len(s) ELSE n)

\* a sanitizeSearchQuery that cuts to the maximum length before it trims
sanitizeSearchQuery_sliceThenTrim(query) ==
    IF query.t # "str" THEN <<>>
    ELSE trim(slice(removeDangerous(removeTags(query.s)), MAX_SEARCH_LENGTH))

sanitizeSearchQuery(query) ==
    IF query.t # "str" THEN <<>>
    ELSE slice(trim(removeDangerous(removeTags(query.s))), MAX_SEARCH_LENGTH)

Min2(a, b) == IF a < b THEN a ELSE b
Max2(a, b) == IF a > b THEN a ELSE b

\* a validatePriceRange that swaps the bounds of an inverted range
validatePriceRange_swap(min, max, absoluteMin, absoluteMax) ==
    LET safeMin == IF min.t = "num" THEN min.n ELSE absoluteMin
        safeMax == IF max.t = "num" THEN max.n ELSE absoluteMax
        clampedMin == Max2(absoluteMin, Min2(safeMin, absoluteMax))
        clampedMax == Min2(absoluteMax, Max2(safeMax, absoluteMin))
    IN  IF clampedMin > clampedMax THEN <<clampedMax, clampedMin>>
        ELSE <<clampedMin, clampedMax>>

\* min and max are numbers, finite or not; the bounds and the result are
\* in hundredths
validatePriceRange(min, max, absoluteMin, absoluteMax) ==
    LET safeMin == IF min.t = "num" THEN min.n ELSE absoluteMin
        safeMax == IF max.t = "num" THEN max.n ELSE absoluteMax
        clampedMin == Max2(absoluteMin, Min2(safeMin, absoluteMax))
        clampedMax == Min2(absoluteMax, Max2(safeMax, absoluteMin))
    IN  IF clampedMin > clampedMax THEN <<clampedMin, clampedMin>>
        ELSE <<clampedMin, clampedMax>>

(***************************************************************************)
(* The filter panel (StoreFilters) and the chips of the product grid on a  *)
(* store page: every event calls a mutator of the filterStore.             *)
(***************************************************************************)
\* the FilterState at address a, its arrays read; prices in hundredths
FilterValue(h, a) ==
    [categories |-> h[h[a].v.categories].v,
     plants |-> h[h[a].v.plants].v,
     priceRange |-> << h[h[a].v.priceRange].v[1].n, h[h[a].v.priceRange].v[2].n >>,
     inStockOnly |-> h[a].v.inStockOnly,
     sortBy |-> h[a].v.sortBy,
     searchQuery |-> h[a].v.searchQuery]

\* filterStore.getSnapshot()
filterState == FilterValue(heap, filterStore_state)

\* history: the filter states installed so far, oldest first, the module's
\* emptyState and initial state being the first two
FilterLog ==
    LET log0 == SelectSeq(snapshots,
                          LAMBDA x : x.cells[x.snapshot].k = "FilterState")
    IN  [i \in DOMAIN log0 |-> FilterValue(log0[i].cells, log0[i].snapshot)]
previousFilterState == FilterLog[Len(FilterLog) - 1]

\* getPriceRange of ProductService, in hundredths: what the page hands to
\* the panel and the grid as minPrice and maxPrice
getPriceRange(list) ==
    IF Len(list) = 0 THEN <<DEFAULT_PRICE_MIN * 100, DEFAULT_PRICE_MAX * 100>>
    ELSE << CHOOSE x \in { list[i].price : i \in DOMAIN list } :
               \A i \in DOMAIN list : x <= list[i].price,
            CHOOSE x \in { list[i].price : i \in DOMAIN list } :
               \A i \in DOMAIN list : x >= list[i].price >>

\* a UI event that ends in a mutator of the store: the mutator installs the
\* last cell of h; the event is noted in `last`
filterEvent(name, arg, h) ==
    /\ nMutations < MaxMutations
    /\ nMutations' = nMutations + 1
    /\ heap' = h
    /\ filterStore_state' = Len(h)
    /\ snapshots' = Append(snapshots, Snapshot(h, Len(h)))
    /\ last' = Op(name, arg, 0)
    /\ UNCHANGED <<cartStore_state, cartStore_isInitialized, overflowHidden,
                   globalState>>
    /\ UNCHANGED <<storage, cartState, initialized, pending, before, saved,
                   persisted, addRun, log, base, nOps, nCalls>>
    /\ UNCHANGED <<fnVars, uiVars>>

\* a handleSearchChange that hands the text of the input to the store as it is
handleSearchChange_unsanitized(value) ==
    filterEvent("handleSearchChange", value,
                setSearchQuery_heap(heap, filterStore_state, value))

\* StoreFilters: onChange of the search input
handleSearchChange(value) ==
    filterEvent("handleSearchChange", value,
                setSearchQuery_heap(heap, filterStore_state,
                                    sanitizeSearchQuery(StrV(value))))

\* StoreFilters: onChange of the two price inputs; numValue = Number(value)
handleMinPriceChange(numValue) ==
    LET safe == validatePriceRange(numValue, Hundredths(filterState.priceRange[2]),
                                   fnIn.minPrice, fnIn.maxPrice)
    IN  filterEvent("handleMinPriceChange", numValue,
                    setPriceRange_heap(heap, filterStore_state,
                                       <<Hundredths(safe[1]), Hundredths(safe[2])>>))
handleMaxPriceChange(numValue) ==
    LET safe == validatePriceRange(Hundredths(filterState.priceRange[1]), numValue,
                                   fnIn.minPrice, fnIn.maxPrice)
    IN  filterEvent("handleMaxPriceChange", numValue,
                    setPriceRange_heap(heap, filterStore_state,
                                       <<Hundredths(safe[1]), Hundredths(safe[2])>>))

\* StoreFilters and grid chips: onToggle / onClick
click_toggleCategory(categoryId) ==
    filterEvent("toggleCategory", categoryId,
                toggleCategory_heap(heap, filterStore_state, categoryId))
click_togglePlant(plantId) ==
    filterEvent("togglePlant", plantId,
                togglePlant_heap(heap, filterStore_state, plantId))
change_setInStockOnly(checked) ==
    filterEvent("setInStockOnly", checked,
                setInStockOnly_heap(heap, filterStore_state, checked))
change_setSortBy(sortBy) ==
    filterEvent("setSortBy", sortBy,
                setSortBy_heap(heap, filterStore_state, sortBy))
click_resetFilters ==
    filterEvent("resetFilters", NoId, resetFilters_heap(heap))

\* grid chips: setSearchQuery('') and setPriceRange([minPrice, maxPrice])
click_clearSearch ==
    filterEvent("clearSearch", NoId,
                setSearchQuery_heap(heap, filterStore_state, <<>>))
click_clearPriceRange ==
    filterEvent("clearPriceRange", NoId,
                setPriceRange_heap(heap, filterStore_state,
                                   <<Hundredths(fnIn.minPrice), Hundredths(fnIn.maxPrice)>>))

\* a product above DEFAULT_PRICE_MAX
Precious ==
    [id |-> "or", name |-> <<"O", "r">>, category |-> <<"s", "o", "i", "n", "s">>,
     price |-> 12000, description |-> <<"o", "r">>,
     ingredients |-> <<>>, plants |-> Absent,
     inStock |-> TRUE, featured |-> Absent]

ProductNamed(id) == CHOOSE p \in CatalogProducts : p.id = id

\* the store pages: a catalog with its price range
StorePages ==
    { [products |-> c, minPrice |-> getPriceRange(c)[1], maxPrice |-> getPriceRange(c)[2]] :
        c \in { <<ProductNamed("rose"), ProductNamed("bain")>>,
                <<Precious, ProductNamed("rose")>> } }

Repeat(c, n) == [i \in 1..n |-> c]

\* texts typed into the search input
SearchTexts ==
    { <<"r", "o", "s", "e">>,
      <<"<", "b", ">", "r", "\"", "o", "'", GraveAccent, "<", "/", "b", ">", ">">>,
      Repeat("a", MAX_SEARCH_LENGTH - 1) \o <<" ", "b", "<">> }

\* values of the price inputs
PriceInputs == { Hundredths(2000), Hundredths(15000) }

InitFilters ==
    /\ storage = NoKey
    /\ cartState = emptyState
    /\ initialized = FALSE
    /\ pending = {}
    /\ last = [op |-> "start", id |-> NoId, quantity |-> 0, repeat |-> FALSE]
    /\ before = <<>>
    /\ saved = "none"
    /\ persisted = NotPersisted
    /\ addRun = [id \in ProductIds |-> -1]
    /\ log = <<>>
    /\ base = <<>>
    /\ nOps = 0
    /\ nCalls = 0
    /\ fnIn \in StorePages
    /\ fnOut = <<>>
    /\ fnDone = FALSE
    /\ pageLoaded

NextFilters ==
    \/ \E value \in SearchTexts : handleSearchChange(value)
    \/ \E numValue \in PriceInputs : handleMinPriceChange(numValue)
    \/ \E numValue \in PriceInputs : handleMaxPriceChange(numValue)
    \/ \E categoryId \in CategoryIds : click_toggleCategory(categoryId)
    \/ \E plantId \in PlantIds : click_togglePlant(plantId)
    \/ \E checked \in BOOLEAN : change_setInStockOnly(checked)
    \/ \E sortBy \in {"price-asc", "default"} : change_setSortBy(sortBy)
    \/ click_resetFilters
    \/ click_clearSearch
    \/ click_clearPriceRange

SpecFilters == InitFilters /\ [][NextFilters]_vars

\* C22: toggleCategory(c) adds c to the selected categories when it is absent
\* and removes it when it is present, and leaves the other categories; two
\* toggles of c in a row give back the set of selected categories there was
\* before the first; the same for togglePlant and the selected plants.
C22_ToggleTwiceRestoresSelection ==
    /\ last.op = "toggleCategory" =>
          /\ (last.id \in Elems(filterState.categories))
                <=> (last.id \notin Elems(previousFilterState.categories))
          /\ Elems(filterState.categories) \ {last.id}
                = Elems(previousFilterState.categories) \ {last.id}
          /\ last.repeat =>
                Elems(filterState.categories)
                   = Elems(FilterLog[Len(FilterLog) - 2].categories)
    /\ last.op = "togglePlant" =>
          /\ (last.id \in Elems(filterState.plants))
                <=> (last.id \notin Elems(previousFilterState.plants))
          /\ Elems(filterState.plants) \ {last.id}
                = Elems(previousFilterState.plants) \ {last.id}
          /\ last.repeat =>
                Elems(filterState.plants)
                   = Elems(FilterLog[Len(FilterLog) - 2].plants)

\* two toggles in a row of a category, beside another selected one
C22_Witness ==
    /\ last.op = "toggleCategory" /\ last.repeat
    /\ last.id \notin Elems(filterState.categories)
    /\ last.id \in Elems(previousFilterState.categories)
    /\ filterState.categories # <<>>

\* the lowest and the highest price of the catalog of the page
catalogMin ==
    CHOOSE x \in { fnIn.products[i].price : i \in DOMAIN fnIn.products } :
       \A i \in DOMAIN fnIn.products : x <= fnIn.products[i].price
catalogMax ==
    CHOOSE x \in { fnIn.products[i].price : i \in DOMAIN fnIn.products } :
       \A i \in DOMAIN fnIn.products : x >= fnIn.products[i].price

\* C23: the stored price range [lo, hi] always satisfies
\* catalogMin <= lo <= hi <= catalogMax, for the lowest and the highest
\* price of the catalog.
C23_PriceRangeWithinCatalogBounds ==
    /\ catalogMin <= filterState.priceRange[1]
    /\ filterState.priceRange[1] <= filterState.priceRange[2]
    /\ filterState.priceRange[2] <= catalogMax

\* filterStore.hasActiveFilters()
hasActiveFilters ==
    \/ Len(filterState.categories) > 0
    \/ Len(filterState.plants) > 0
    \/ filterState.priceRange[1] > DEFAULT_PRICE_MIN * 100
    \/ filterState.priceRange[2] < DEFAULT_PRICE_MAX * 100
    \/ filterState.inStockOnly
    \/ Len(filterState.searchQuery) > 0

\* C24: hasActiveFilters() is true exactly when a category or a plant is
\* selected, or the price range is narrower than the full range of the
\* catalog, or in-stock-only is set, or the search text is not empty; it is
\* false right after resetFilters, and after the price range was set back to
\* the full range of the catalog with nothing else set.
C24_HasActiveFiltersIffCriteriaDiffer ==
    /\ hasActiveFilters <=>
          \/ filterState.categories # <<>>
          \/ filterState.plants # <<>>
          \/ filterState.priceRange[1] > catalogMin
          \/ filterState.priceRange[2] < catalogMax
          \/ filterState.inStockOnly
          \/ filterState.searchQuery # <<>>
    /\ last.op = "resetFilters" => ~hasActiveFilters
    /\ (/\ last.op = "clearPriceRange"
        /\ filterState.categories = <<>> /\ filterState.plants = <<>>
        /\ ~filterState.inStockOnly /\ filterState.searchQuery = <<>>)
          => ~hasActiveFilters

\* C28: in the default criteria state, at the start and right after
\* resetFilters, the grid lists every product of the catalog.
C28_DefaultCriteriaShowWholeCatalog ==
    (last.op \in {"start", "resetFilters"}) =>
        Elems(filteredProducts(fnIn.products, filterState)) = Elems(fnIn.products)

SanitizeInputs ==
    { Null, Undef, Hundredths(12300), StrV(<<>>),
      StrV(<<"<", "b", ">", "b", "o", "l", "d", "<", "/", "b", ">">>),
      StrV(<<"t", "e", "s", "t", "<", ">", "\"", "'">>),
      StrV(<<GraveAccent, "b", GraveAccent>>),
      StrV(<<" ", " ", "t", "e", "s", "t", " ", " ">>),
      StrV(<<"h", "u", "i", "l", "e", " ", "d", "e">>),
      StrV(<<"<", "<", "b", ">", "a", ">", "<">>),
      StrV(Repeat("a", MAX_SEARCH_LENGTH + 50)),
      StrV(Repeat("a", MAX_SEARCH_LENGTH - 1) \o <<" ", "b">>) }

\* arguments of validatePriceRange, in hundredths
PriceArguments == { Hundredths(h) : h \in {-500, 0, 1000, 2000, 5000, 8000,
                                            10000, 15000} } \cup {Inf}
PriceBounds == { <<0, 10000>>, <<1250, 3900>>, <<2000, 2000>> }

ValidationInputs ==
    { [fn |-> "sanitizeSearchQuery", query |-> q] : q \in SanitizeInputs }
      \cup [fn : {"validatePriceRange"}, min : PriceArguments,
            max : PriceArguments, absolute : PriceBounds]

InitValidation ==
    /\ storage = NoKey
    /\ cartState = emptyState
    /\ initialized = FALSE
    /\ pending = {}
    /\ last = [op |-> "start", id |-> NoId, quantity |-> 0, repeat |-> FALSE]
    /\ before = <<>>
    /\ saved = "none"
    /\ persisted = NotPersisted
    /\ addRun = [id \in ProductIds |-> -1]
    /\ log = <<>>
    /\ base = <<>>
    /\ nOps = 0
    /\ nCalls = 0
    /\ fnIn \in ValidationInputs
    /\ fnOut = [passes |-> 0, first |-> <<>>, second |-> <<>>]
    /\ fnDone = FALSE
    /\ pageLoaded

\* sanitizeSearchQuery(query)
Call_sanitizeSearchQuery ==
    /\ ~fnDone /\ fnIn.fn = "sanitizeSearchQuery"
    /\ fnDone' = TRUE
    /\ fnOut' = [passes |-> 1, first |-> sanitizeSearchQuery(fnIn.query),
                 second |-> <<>>]
    /\ UNCHANGED <<cartVars, fnIn, uiVars, heapVars>>

\* sanitizeSearchQuery(sanitized), on the text a first call returned
Call_sanitizeSearchQuery_again ==
    /\ fnDone /\ fnIn.fn = "sanitizeSearchQuery" /\ fnOut.passes = 1
    /\ fnOut' = [fnOut EXCEPT !.passes = 2,
                              !.second = sanitizeSearchQuery(StrV(fnOut.first))]
    /\ UNCHANGED <<cartVars, fnIn, fnDone, uiVars, heapVars>>

\* validatePriceRange(min, max, absoluteMin, absoluteMax)
Call_validatePriceRange ==
    /\ ~fnDone /\ fnIn.fn = "validatePriceRange"
    /\ fnDone' = TRUE
    /\ fnOut' = [passes |-> 1,
                 first |-> validatePriceRange(fnIn.min, fnIn.max,
                                              fnIn.absolute[1], fnIn.absolute[2]),
                 second |-> <<>>]
    /\ UNCHANGED <<cartVars, fnIn, uiVars, heapVars>>

NextValidation ==
    \/ Call_sanitizeSearchQuery
    \/ Call_sanitizeSearchQuery_again
    \/ Call_validatePriceRange

SpecValidation == InitValidation /\ [][NextValidation]_vars

\* C25: sanitizing a text that sanitizeSearchQuery returned gives the same
\* text again.
C25_SanitizeSearchQueryIsIdempotent ==
    (fnIn.fn = "sanitizeSearchQuery" /\ fnOut.passes = 2) => fnOut.second = fnOut.first

Clamp(x, lowest, highest) ==
    IF x < lowest THEN lowest ELSE IF x > highest THEN highest ELSE x

\* C27: for finite min and max and absoluteMin <= absoluteMax,
\* validatePriceRange returns [lo, hi] with lo = min clamped into the
\* bounds and hi = max clamped into the bounds when that is at least lo,
\* and lo otherwise; so absoluteMin <= lo <= hi <= absoluteMax, and a pair
\* inside the bounds with min <= max comes back as it is.
C27_ValidatePriceRangeClampsAndCollapses ==
    (/\ fnDone /\ fnIn.fn = "validatePriceRange"
     /\ fnIn.min.t = "num" /\ fnIn.max.t = "num") =>
       LET lo == Clamp(fnIn.min.n, fnIn.absolute[1], fnIn.absolute[2])
           clampedMax == Clamp(fnIn.max.n, fnIn.absolute[1], fnIn.absolute[2])
           hi == IF clampedMax >= lo THEN clampedMax ELSE lo
       IN  /\ fnOut.first = <<lo, hi>>
           /\ fnIn.absolute[1] <= fnOut.first[1]
           /\ fnOut.first[1] <= fnOut.first[2]
           /\ fnOut.first[2] <= fnIn.absolute[2]
           /\ (/\ fnIn.absolute[1] <= fnIn.min.n /\ fnIn.min.n <= fnIn.max.n
               /\ fnIn.max.n <= fnIn.absolute[2])
                 => fnOut.first = <<fnIn.min.n, fnIn.max.n>>

\* validatePriceRange(80, 20, 0, 100) has returned [80, 80]
C27_Witness ==
    /\ fnDone /\ fnIn.fn = "validatePriceRange"
    /\ fnIn.min = Hundredths(8000) /\ fnIn.max = Hundredths(2000)
    /\ fnIn.absolute = <<0, 10000>>
    /\ fnOut.first = <<8000, 8000>>

(***************************************************************************)
(* The CartContext cart on a browser with nothing stored yet.              *)
(***************************************************************************)
InitEmptyStorage == InitWith({NoKey})

SpecEmptyStorage == InitEmptyStorage /\ [][Next]_vars

\* C30: after a page load, the cart initialized from storage is the list of
\* line items the mutators wrote there last.
C30_PersistedCartReloadsUnchanged ==
    (initialized /\ last.op = "initializeCart" /\ persisted.some) =>
        items = persisted.items

====
